---- MODULE Spec2Model ----
(***************************************************************************)
(* Seeded game engine of mop: the derivation function deriveGameRandom,    *)
(* the game resolvers built on it, the interval-driven batch loops of the  *)
(* engines and the session bookkeeping of the page.                        *)
(*                                                                         *)
(* Strings are sequences of UTF-16 code units (numbers).  A derived value  *)
(* is the exact rational num/den of the double the code computes.          *)
(***************************************************************************)
EXTENDS Integers, Sequences, FiniteSets, TLC

\* ------------------------------------------------------------------------
\* Bounds of the model
\* ------------------------------------------------------------------------
MaxCalls == 3
MaxClock == 4098
MaxStarts == 1
MaxRemounts == 1
RemountBy == 10
MaxIndex == 9
HandCount == 2
MaxDashStarts == 2
MaxCoinTicks == 2
MaxDigestByte == 63
MaxTableIndex == 7

\* ------------------------------------------------------------------------
\* JavaScript values that reach deriveGameRandom
\* ------------------------------------------------------------------------
\* a number is its integer part num and the decimal digits frac after the point
Str(s) == [type |-> "string", str |-> s, num |-> 0, frac |-> <<>>]
Num(n) == [type |-> "number", str |-> <<>>, num |-> n, frac |-> <<>>]
Frac(n, digits) == [type |-> "number", str |-> <<>>, num |-> n, frac |-> digits]
NaNVal == [type |-> "NaN", str |-> <<>>, num |-> 0, frac |-> <<>>]
Undefined == [type |-> "undefined", str |-> <<>>, num |-> 0, frac |-> <<>>]

\* typeof v === "string"
IsString(v) == v.type = "string"
\* !v : the empty string, undefined, NaN and 0 are falsy
Falsy(v) ==
  \/ v.type = "undefined"
  \/ v.type = "NaN"
  \/ (v.type = "string" /\ v.str = <<>>)
  \/ (v.type = "number" /\ v.num = 0 /\ v.frac = <<>>)

\* ------------------------------------------------------------------------
\* Number and string conversions
\* ------------------------------------------------------------------------
RECURSIVE DecDigits(_)
DecDigits(n) ==
  IF n < 10 THEN <<48 + n>> ELSE Append(DecDigits(n \div 10), 48 + (n % 10))

\* String(n) for an integer n
NumToString(n) == IF n < 0 THEN <<45>> \o DecDigits(0 - n) ELSE DecDigits(n)

\* String(v) for a number v: the integer part, then the point and the digits
NumberToString(v) ==
  IF v.frac = <<>> THEN NumToString(v.num) ELSE NumToString(v.num) \o <<46>> \o v.frac

HexDigitChar(d) == IF d < 10 THEN 48 + d ELSE 87 + d

RECURSIVE HexDigits(_)
\* n.toString(16)
HexDigits(n) ==
  IF n < 16 THEN <<HexDigitChar(n)>>
  ELSE Append(HexDigits(n \div 16), HexDigitChar(n % 16))

\* b.toString(16).padStart(2, "0")
ByteToHex(b) == <<HexDigitChar(b \div 16), HexDigitChar(b % 16)>>

\* Array.from(bytes).map(...).join("")
BytesToHex(bs) ==
  [i \in 1..(2 * Len(bs)) |-> ByteToHex(bs[(i + 1) \div 2])[2 - (i % 2)]]

\* TextEncoder.encode of one code unit (UTF-8, code units below 2048)
Utf8Char(c) == IF c < 128 THEN <<c>> ELSE <<192 + (c \div 64), 128 + (c % 64)>>

RECURSIVE Utf8Encode(_)
\* TextEncoder.encode(s), the string split in halves
Utf8Encode(s) ==
  IF s = <<>> THEN <<>>
  ELSE IF Len(s) = 1 THEN Utf8Char(s[1])
  ELSE LET h == Len(s) \div 2
       IN Utf8Encode(SubSeq(s, 1, h)) \o Utf8Encode(SubSeq(s, h + 1, Len(s)))

\* arr.slice(0, n)
Slice(s, n) == SubSeq(s, 1, IF Len(s) < n THEN Len(s) ELSE n)

\* line terminators, which the regular expression dot does not match
IsLineTerminator(c) == c \in {10, 13, 8232, 8233}

RECURSIVE MatchFrom(_)
\* the matches of /.{1,2}/g, scanning from the left
MatchFrom(s) ==
  IF s = <<>> THEN <<>>
  ELSE IF IsLineTerminator(s[1]) THEN MatchFrom(Tail(s))
  ELSE IF Len(s) >= 2 /\ ~IsLineTerminator(s[2])
       THEN <<SubSeq(s, 1, 2)>> \o MatchFrom(SubSeq(s, 3, Len(s)))
       ELSE <<SubSeq(s, 1, 1)>> \o MatchFrom(Tail(s))

\* seedHex.match(/.{1,2}/g); the empty sequence stands for null.  Without a
\* line terminator the matches are the consecutive pairs of characters.
HexMatches(s) ==
  IF \E i \in 1..Len(s) : IsLineTerminator(s[i])
  THEN MatchFrom(s)
  ELSE [k \in 1..((Len(s) + 1) \div 2) |->
          SubSeq(s, 2 * k - 1, IF 2 * k <= Len(s) THEN 2 * k ELSE Len(s))]

IsHexChar(c) == (c >= 48 /\ c <= 57) \/ (c >= 97 /\ c <= 102) \/ (c >= 65 /\ c <= 70)
HexVal(c) == IF c <= 57 THEN c - 48 ELSE IF c >= 97 THEN c - 87 ELSE c - 55
IsWhiteSpace(c) == c \in {9, 11, 12, 32, 160}

\* Number.parseInt(byte, 16) of a chunk of one or two characters, then the
\* isNaN test of the caller: -1 stands for NaN
ParseInt16(chunk) ==
  LET a == chunk[1]
  IN IF Len(chunk) = 1
     THEN (IF IsHexChar(a) THEN HexVal(a) ELSE -1)
     ELSE LET b == chunk[2]
          IN IF IsHexChar(a)
             THEN (IF IsHexChar(b) THEN 16 * HexVal(a) + HexVal(b) ELSE HexVal(a))
             ELSE IF IsWhiteSpace(a) \/ a = 43
                  THEN (IF IsHexChar(b) THEN HexVal(b) ELSE -1)
                  ELSE IF a = 45
                       THEN (IF IsHexChar(b) THEN 256 - HexVal(b) ELSE -1)
                       ELSE -1

\* new Uint8Array(hexMatches.map(...)): NaN becomes 0, values wrap to a byte
ParsedByte(chunk) ==
  LET p == ParseInt16(chunk) IN IF p = -1 THEN 0 ELSE p % 256

\* ------------------------------------------------------------------------
\* 32-bit arithmetic
\* ------------------------------------------------------------------------
RECURSIVE Xor(_, _)
\* a ^ b on non-negative integers
Xor(a, b) ==
  IF a = 0 THEN b
  ELSE IF b = 0 THEN a
  ELSE 2 * Xor(a \div 2, b \div 2) + ((a + b) % 2)

MinInt32 == (0 - 2147483647) - 1
MaxInt32 == 2147483647

\* ((hash << 5) - hash + x) | 0 : 31 * hash + x wrapped to a signed 32-bit
\* integer, computed on 16-bit halves
MixStep(hash, x) ==
  LET lo == hash % 65536
      hi == hash \div 65536
      t == lo * 31 + x
      lo2 == t % 65536
      hi2 == (hi * 31 + (t \div 65536)) % 65536
      his == IF hi2 >= 32768 THEN hi2 - 65536 ELSE hi2
  IN his * 65536 + lo2

\* ------------------------------------------------------------------------
\* Exact comparison of the rationals a/b and c/d (b, d > 0; a, c >= 0)
\* ------------------------------------------------------------------------
RECURSIVE RatLess(_, _, _, _)
RatLess(a, b, c, d) ==
  LET q1 == a \div b
      q2 == c \div d
      r1 == a % b
      r2 == c % d
  IN IF q1 /= q2 THEN q1 < q2
     ELSE IF r2 = 0 THEN FALSE
     ELSE IF r1 = 0 THEN TRUE
     ELSE RatLess(d, r2, b, r1)

\* a derived value
Val(n, d) == [kind |-> "number", num |-> n, den |-> d]
Raised == [kind |-> "exception", num |-> 0, den |-> 1]

ValLess(v, w) == RatLess(v.num, v.den, w.num, w.den)
ValMin == Val(1, 1000000)
ValMax == Val(999999, 1000000)
ValHalf == Val(1, 2)
\* ------------------------------------------------------------------------
\* deriveGameRandom (lib/crypto/seed)
\* ------------------------------------------------------------------------
FallbackSeedPrefix == <<102, 97, 108, 108, 98, 97, 99, 107, 45, 115, 101, 101, 100, 45>>
DefaultContext == <<100, 101, 102, 97, 117, 108, 116, 45, 99, 111, 110, 116, 101, 120, 116>>

\* if (!seedHex || typeof seedHex !== "string") seedHex = "fallback-seed-" + Date.now().toString(16)
ValidateSeed(seedHex, now) ==
  IF Falsy(seedHex) \/ ~IsString(seedHex)
  THEN FallbackSeedPrefix \o HexDigits(now)
  ELSE seedHex.str

\* the context taken as it comes, without the default
ValidateContextKeep(context) == context.str

\* if (!context || typeof context !== "string") context = "default-context"
ValidateContext(context) ==
  IF Falsy(context) \/ ~IsString(context) THEN DefaultContext ELSE context.str

\* if (typeof step !== "number" || isNaN(step)) step = 0
ValidateStep(step) == IF step.type /= "number" THEN Num(0) ELSE step

\* hexMatches.map((byte) => ...)
MapParsedByte(chunks) == [k \in 1..Len(chunks) |-> ParsedByte(chunks[k])]

\* the inner try/catch: the parsed chunks, or the UTF-8 bytes of the string
\* when match returns null
SeedBytes(seedStr) ==
  LET hexMatches == HexMatches(seedStr)
  IN IF hexMatches = <<>>
     THEN Slice(Utf8Encode(seedStr), 32)
     ELSE MapParsedByte(hexMatches)

\* encoder.encode(`${context}-${step}`)
ContextBytes(ctxStr, stepNum) ==
  Utf8Encode(ctxStr \o <<45>> \o NumberToString(stepNum))

RECURSIVE MixLoop(_, _, _, _, _)
\* the iterations from <= i < to of
\*   for (let i = 0; i < Math.min(seedBytes.length, 32); i++)
\*     hash = ((hash << 5) - hash + (seedBytes[i] ^ contextByte)) | 0
\* (the range is run in two halves; the first half is evaluated to a value h
\* before the second half starts from it)
MixLoop(hash, from, to, seedBytes, contextBytes) ==
  IF from >= to THEN hash
  ELSE IF to = from + 1
  THEN LET contextByte == contextBytes[(from % Len(contextBytes)) + 1]
       IN MixStep(hash, Xor(seedBytes[from + 1], contextByte))
  ELSE LET mid == (from + to) \div 2
       IN CHOOSE r \in { MixLoop(h, mid, to, seedBytes, contextBytes) :
                          h \in {MixLoop(hash, from, mid, seedBytes, contextBytes)} } : TRUE

MixHash(seedBytes, contextBytes) ==
  MixLoop(0, 0, IF Len(seedBytes) < 32 THEN Len(seedBytes) ELSE 32,
          seedBytes, contextBytes)

\* Math.min(0.999999, Math.max(0.000001, Math.abs(hash) / 2147483647))
Normalize(hash) ==
  IF hash = MinInt32 THEN ValMax
  ELSE LET normalized == Val(IF hash < 0 THEN 0 - hash ELSE hash, MaxInt32)
       IN IF ValLess(normalized, ValMin) THEN ValMin
          ELSE IF ValLess(ValMax, normalized) THEN ValMax
          ELSE normalized

RECURSIVE CharHash(_, _, _, _)
\* s.split("").reduce((acc, char) => ((acc << 5) - acc + char.charCodeAt(0)) | 0, 0)
\* over the characters from < k <= to of s (the range is run in two halves)
CharHash(acc, from, to, s) ==
  IF from >= to THEN acc
  ELSE IF to = from + 1 THEN MixStep(acc, s[to])
  ELSE LET mid == (from + to) \div 2
       IN CHOOSE r \in { CharHash(h, mid, to, s) : h \in {CharHash(acc, from, mid, s)} } : TRUE

\* the catch block: Math.abs(fallbackSeed % 1000000) / 1000000
FallbackDerive(seedStr, ctxStr, stepNum) ==
  LET str == seedStr \o ctxStr \o NumberToString(stepNum)
      fallbackSeed == CharHash(0, 0, Len(str), str)
      rem == IF fallbackSeed = MinInt32 THEN 483648
             ELSE (IF fallbackSeed < 0 THEN 0 - fallbackSeed ELSE fallbackSeed) % 1000000
  IN Val(rem, 1000000)

\* the try block raises exactly when `new TextEncoder()` does: the global is
\* missing from the JavaScript environment (ReferenceError at line 55, or at
\* line 50 inside the inner catch)
TryRaises(textEncoder) == ~textEncoder

\* deriveGameRandom without its outer try/catch: the exception reaches the caller
deriveGameRandomNoCatch(seedHex, context, step, now, textEncoder) ==
  LET seedStr == ValidateSeed(seedHex, now)
      ctxStr == ValidateContext(context)
      stepNum == ValidateStep(step)
  IN IF TryRaises(textEncoder)
     THEN Raised
     ELSE Normalize(MixHash(SeedBytes(seedStr), ContextBytes(ctxStr, stepNum)))

deriveGameRandom(seedHex, context, step, now, textEncoder) ==
  LET seedStr == ValidateSeed(seedHex, now)
      ctxStr == ValidateContext(context)
      stepNum == ValidateStep(step)
  IN IF TryRaises(textEncoder)
     THEN FallbackDerive(seedStr, ctxStr, stepNum)
     ELSE Normalize(MixHash(SeedBytes(seedStr), ContextBytes(ctxStr, stepNum)))

\* v < 0.5
LessThanHalf(v) == ValLess(v, ValHalf)

\* Math.ceil(v * k) in the place of Math.floor(v * k)
FloorTimesUp(v, k) ==
  Cardinality({j \in 0..(k * ((v.num \div v.den) + 1)) : RatLess(j, k, v.num, v.den)})

\* Math.floor(v * k) for an integer k >= 1 and v >= 0: the number of
\* j >= 1 with j / k <= v
FloorTimes(v, k) ==
  Cardinality({j \in 1..(k * ((v.num \div v.den) + 1)) : ~RatLess(v.num, v.den, j, k)})

\* ------------------------------------------------------------------------
\* State
\* ------------------------------------------------------------------------
VARIABLES
  clock,           \* Date.now()
  hasTextEncoder,  \* whether the environment defines the global TextEncoder
  args,            \* the arguments of the calls of deriveGameRandom under study
  calls,           \* number of calls made with args
  first,           \* what the first of these calls returned
  last,            \* what the latest of these calls returned
  appState,        \* the page's appState
  engines,         \* the engine component mounted for each session
  pending,         \* calls of startGameSessions waiting on generateGameSeed
  starts,          \* clicks on the start button so far
  nextId,          \* index of the next identifier createGameId hands out
  remounts,        \* times an engine was unmounted and mounted again
  rule,            \* the game rule under study: its inputs and its verdict
  hands,           \* the hand engine mounted for each session of a hand game
  timers           \* the timeouts set and not yet fired

deriveVars == <<clock, hasTextEncoder, args, calls, first, last>>

appVars == <<appState, engines, pending, starts, nextId, remounts>>

auxVars == <<rule, hands, timers>>

vars == <<deriveVars, appVars, auxVars>>

\* ------------------------------------------------------------------------
\* The page: players, sessions, master seed
\* ------------------------------------------------------------------------
gameConfigs ==
  << [type |-> "coin-flip", count |-> 100],
     [type |-> "rock-paper-scissors", count |-> 50],
     [type |-> "high-card", count |-> 25] >>

NoSeed == <<>>

InitialAppState ==
  [player1 |-> "Pranav", player2 |-> "Manit", sessions |-> <<>>,
   isRunning |-> FALSE, masterSeed |-> NoSeed]

\* what the two name inputs are set to
PlayerLabels == {"Manit", " "}

\* label.trim()
Trim(label) == IF label \in {"", " ", "  "} THEN "" ELSE label

canStart(state) ==
  /\ Trim(state.player1) # ""
  /\ Trim(state.player2) # ""
  /\ ~state.isRunning

\* digests generateGameSeed can resolve to
SeedPool ==
  << <<155, 156, 131, 28, 55, 191, 70, 139, 235, 157, 13, 151, 38, 105, 98, 99,
       158, 58, 78, 20, 134, 141, 231, 65, 195, 190, 14, 87, 20, 194, 20, 41>>,
     <<142, 253, 97, 104, 160, 85, 209, 228, 88, 99, 194, 55, 235, 63, 234, 178,
       190, 148, 241, 11, 124, 205, 197, 191, 139, 181, 67, 5, 200, 177, 159, 127>> >>

\* masterSeedHex of each digest
SeedHexPool == [s \in 1..Len(SeedPool) |-> BytesToHex(SeedPool[s]) \o <<>>] \o <<>>

\* identifiers createGameId hands out: a base-36 timestamp, "-", six base-36
\* digits
NumIds == Len(gameConfigs) * MaxStarts

IdOf(k) ==
  <<109, 104, 48, 107, 51, 120, 57, 97>> \o <<45>> \o <<113, 55, 119, 50, 122>> \o <<96 + k>>

SessionIds == [k \in 1..NumIds |-> IdOf(k)] \o <<>>

IdIndex(id) == CHOOSE k \in 1..NumIds : SessionIds[k] = id

SeedIndex(masterSeed) == CHOOSE s \in 1..Len(SeedPool) : SeedHexPool[s] = masterSeed

\* the two derivation contexts of each game type, without the session id
ContextPrefix(type) ==
  IF type = "coin-flip"
  THEN << <<97, 115, 115, 105, 103, 110, 109, 101, 110, 116, 45>>,     \* "assignment-"
          <<102, 108, 105, 112, 45>> >>                                 \* "flip-"
  ELSE IF type = "rock-paper-scissors"
  THEN << <<114, 112, 115, 45, 112, 49, 45>>,                           \* "rps-p1-"
          <<114, 112, 115, 45, 112, 50, 45>> >>                         \* "rps-p2-"
  ELSE << <<99, 97, 114, 100, 45, 112, 49, 45>>,                        \* "card-p1-"
          <<99, 97, 114, 100, 45, 112, 50, 45>> >>                      \* "card-p2-"

\* the config of the session that receives the k-th identifier
ConfigOfId(k) == gameConfigs[((k - 1) % Len(gameConfigs)) + 1]

MOVES == <<"rock", "paper", "scissors">>

SUITS == <<"spades", "hearts", "diamonds", "clubs">>

RANKS == <<"2", "3", "4", "5", "6", "7", "8", "9", "10", "J", "Q", "K", "A">>

RANK_VALUES == [k \in 1..Len(RANKS) |-> k + 1]

drawCard(seed) ==
  LET cardIndex == FloorTimes(seed, 52)
      suitIndex == cardIndex \div 13
      rankIndex == cardIndex % 13
  IN [suit |-> SUITS[suitIndex + 1], rank |-> RANKS[rankIndex + 1],
      value |-> RANK_VALUES[rankIndex + 1]]

\* what an engine of the given type reads off a derived number: seed < 0.5,
\* MOVES[Math.floor(seed * 3)] or drawCard(seed)
Reading(type, seed) ==
  IF type = "coin-flip" THEN LessThanHalf(seed)
  ELSE IF type = "rock-paper-scissors" THEN MOVES[FloorTimes(seed, 3) + 1]
  ELSE drawCard(seed)

\* Reading of deriveGameRandom(masterSeed, prefix + session.id, step) for
\* every master seed, session, context and step the engines ask for,
\* computed once
ReadingMemo ==
  [s \in 1..Len(SeedPool) |->
    [k \in 1..NumIds |->
      [c \in 1..2 |->
        [n \in 1..ConfigOfId(k).count |->
          Reading(ConfigOfId(k).type,
                  deriveGameRandom(Str(SeedHexPool[s]),
                                   Str(ContextPrefix(ConfigOfId(k).type)[c] \o SessionIds[k]),
                                   Num(n - 1), 0, TRUE))] \o <<>>] \o <<>>] \o <<>>] \o <<>>

Derived(masterSeed, c, id, step) ==
  LET k == IdIndex(id)
  IN IF step < ConfigOfId(k).count
     THEN ReadingMemo[SeedIndex(masterSeed)][k][c][step + 1]
     ELSE Reading(ConfigOfId(k).type,
                  deriveGameRandom(Str(masterSeed),
                                   Str(ContextPrefix(ConfigOfId(k).type)[c] \o id),
                                   Num(step), 0, TRUE))

\* ------------------------------------------------------------------------
\* Values stored in session.results
\* ------------------------------------------------------------------------
Obj(r) == [type |-> "object", val |-> r]
Arr(s) == [type |-> "array", val |-> s]

UndefinedWinner == "undefined"

\* r.winner
WinnerProp(r) == IF r.type = "object" THEN r.val.winner ELSE UndefinedWinner

\* results.filter((r) => r.winner === label).length
CountWinner(results, label) ==
  Cardinality({k \in 1..Len(results) : WinnerProp(results[k]) = label})

determineSessionWinner(results, player1, player2) ==
  IF Len(results) = 0 THEN "No winner"
  ELSE LET player1Wins == CountWinner(results, player1)
           player2Wins == CountWinner(results, player2)
       IN IF player1Wins > player2Wins THEN player1
          ELSE IF player2Wins > player1Wins THEN player2
          ELSE "Tie"

\* variant of SessionMatches that takes every session for the updated one
SessionMatchesAny(session, sessionId) == TRUE

SessionMatches(session, sessionId) == session.id = sessionId

IsComplete(completed, count) == completed >= count

\* the map callback of updateSessionProgress
UpdateSession(session, sessionId, completed, result, player1, player2) ==
  IF SessionMatches(session, sessionId)
  THEN LET newResults == Append(session.results, result)
           isComplete == IsComplete(completed, session.count)
       IN [session EXCEPT !.completed = completed,
                          !.results = newResults,
                          !.isRunning = ~isComplete,
                          !.winner = IF isComplete
                                     THEN determineSessionWinner(newResults, player1, player2)
                                     ELSE UndefinedWinner]
  ELSE session

\* updateSessionProgress as the engine calls it: seen is what
\* appState.sessions.every(s => s.completed >= s.count) gives on the session
\* list of the render the engine's interval callback was created in
updateSessionProgress(state, seen, sessionId, completed, result) ==
  LET allComplete == seen
  IN [state EXCEPT
        !.sessions = [k \in 1..Len(state.sessions) |->
                        UpdateSession(state.sessions[k], sessionId, completed, result,
                                      state.player1, state.player2)],
        !.isRunning = IF allComplete THEN FALSE ELSE state.isRunning]

\* the result entries of the sessions, as (session, entry) positions
ResultSlots(sessions) ==
  UNION {{<<k, n>> : n \in 1..Len(sessions[k].results)} : k \in 1..Len(sessions)}

RECURSIVE SumCompleted(_, _)
\* sessions.reduce((sum, s) => sum + s.completed, 0) over the first n sessions
SumCompleted(sessions, n) ==
  IF n = 0 THEN 0 ELSE SumCompleted(sessions, n - 1) + sessions[n].completed

\* the analytics of ModernDashboard: the if / else-if chain over result.winner
analytics(sessions, player1, player2) ==
  LET winnerAt(p) == WinnerProp(sessions[p[1]].results[p[2]])
      slots == ResultSlots(sessions)
  IN [player1TotalWins |-> Cardinality({p \in slots : winnerAt(p) = player1}),
      player2TotalWins |-> Cardinality({p \in slots : /\ winnerAt(p) # player1
                                                       /\ winnerAt(p) = player2}),
      totalTies |-> Cardinality({p \in slots : /\ winnerAt(p) # player1
                                                /\ winnerAt(p) # player2
                                                /\ winnerAt(p) = "Tie"}),
      totalGames |-> SumCompleted(sessions, Len(sessions))]

\* ------------------------------------------------------------------------
\* Game resolvers
\* ------------------------------------------------------------------------
HeadsPlayer(masterSeed, id, batchStart, player1, player2) ==
  IF Derived(masterSeed, 1, id, batchStart) THEN player1 ELSE player2

\* variant of TailsPlayer that gives both faces to one player
TailsPlayerSame(headsPlayer, player1, player2) == headsPlayer

TailsPlayer(headsPlayer, player1, player2) ==
  IF headsPlayer = player1 THEN player2 ELSE player1

\* one coin flip of GridCoinFlip, in the batch that starts at batchStart
FlipGame(masterSeed, id, gameIndex, batchStart, player1, player2) ==
  LET headsPlayer == HeadsPlayer(masterSeed, id, batchStart, player1, player2)
      tailsPlayer == TailsPlayer(headsPlayer, player1, player2)
      result == IF Derived(masterSeed, 2, id, gameIndex) THEN "heads" ELSE "tails"
  IN [gameIndex |-> gameIndex, result |-> result,
      winner |-> IF result = "heads" THEN headsPlayer ELSE tailsPlayer]

\* the table with rock and paper exchanged
MOVE_BEATS_Exchanged == [rock |-> "paper", paper |-> "scissors", scissors |-> "rock"]

MOVE_BEATS == [rock |-> "scissors", paper |-> "rock", scissors |-> "paper"]

determineWinner(move1, move2, player1, player2) ==
  IF move1 = move2 THEN "Tie"
  ELSE IF MOVE_BEATS[move1] = move2 THEN player1
  ELSE player2

\* one round of EnhancedRPS
RpsGame(masterSeed, id, gameIndex, player1, player2) ==
  LET player1Move == Derived(masterSeed, 1, id, gameIndex)
      player2Move == Derived(masterSeed, 2, id, gameIndex)
  IN [gameIndex |-> gameIndex, player1Move |-> player1Move, player2Move |-> player2Move,
      winner |-> determineWinner(player1Move, player2Move, player1, player2)]

\* the suits ranked the other way round
suitOrderReversed == [spades |-> 1, hearts |-> 2, diamonds |-> 3, clubs |-> 4]

suitOrder == [spades |-> 4, hearts |-> 3, diamonds |-> 2, clubs |-> 1]

CardWinner(player1Card, player2Card, player1, player2) ==
  IF player1Card.value > player2Card.value THEN player1
  ELSE IF player2Card.value > player1Card.value THEN player2
  ELSE IF suitOrder[player1Card.suit] > suitOrder[player2Card.suit] THEN player1
  ELSE IF suitOrder[player2Card.suit] > suitOrder[player1Card.suit] THEN player2
  ELSE "Tie"

\* one deal of HighCardGame
CardGame(masterSeed, id, gameIndex, player1, player2) ==
  LET player1Card == Derived(masterSeed, 1, id, gameIndex)
      player2Card == Derived(masterSeed, 2, id, gameIndex)
  IN [gameIndex |-> gameIndex, player1Card |-> player1Card, player2Card |-> player2Card,
      winner |-> CardWinner(player1Card, player2Card, player1, player2)]

\* the result an engine of the given type pushes for gameIndex
ResolveGame(type, masterSeed, id, gameIndex, batchStart, player1, player2) ==
  IF type = "coin-flip"
  THEN FlipGame(masterSeed, id, gameIndex, batchStart, player1, player2)
  ELSE IF type = "rock-paper-scissors"
  THEN RpsGame(masterSeed, id, gameIndex, player1, player2)
  ELSE CardGame(masterSeed, id, gameIndex, player1, player2)

\* ------------------------------------------------------------------------
\* The engines GridCoinFlip, EnhancedRPS and HighCardGame
\* ------------------------------------------------------------------------
ZeroStats == [player1Wins |-> 0, player2Wins |-> 0, ties |-> 0]

NoBatch == [batchStart |-> 0, batchSize |-> 0]

Unmounted ==
  [mounted |-> FALSE, processedRef |-> 0, intervalRef |-> "none", live |-> 0, seen |-> FALSE,
   stats |-> ZeroStats, history |-> <<>>, lastBatch |-> NoBatch, batches |-> 0]

\* Math.ceil(a / b) for positive integers
CeilDiv(a, b) == (a + b - 1) \div b

Min(a, b) == IF a < b THEN a ELSE b

\* batchSize of startProcessing
BatchSize(session) ==
  IF session.type = "coin-flip" THEN CeilDiv(session.count, 20)
  ELSE IF session.type = "rock-paper-scissors" THEN 5
  ELSE 3

\* variant of CurrentBatch that ignores what remains
CurrentBatchWhole(batchSize, count, processed) == batchSize

\* currentBatch of processBatch
CurrentBatch(batchSize, count, processed) == Min(batchSize, count - processed)

\* variant of Advance that leaves processedRef.current alone
AdvanceNot(processed, currentBatch) == processed

\* processedRef.current after the batch
Advance(processed, currentBatch) == processed + currentBatch

\* what the mount effect stores in processedRef.current
InitProcessed(session) ==
  IF session.type = "coin-flip" THEN 0 ELSE session.completed

\* what the mount effect leaves in stats
InitStats(session, player1, player2) ==
  IF session.type = "coin-flip" THEN ZeroStats
  ELSE [player1Wins |-> CountWinner(session.results, player1),
        player2Wins |-> IF player2 = player1 THEN 0
                        ELSE CountWinner(session.results, player2),
        ties |-> IF "Tie" \in {player1, player2} THEN 0
                 ELSE CountWinner(session.results, "Tie")]

\* what the interval callback created under this session list will see in
\* updateSessionProgress: appState.sessions.every(s => s.completed >= s.count)
Snapshot(sessions) ==
  \A k \in 1..Len(sessions) : sessions[k].completed >= sessions[k].count

\* clearInterval without effect: the variant of ClearInterval that leaves
\* the timer running
ClearIntervalNot(engine) == engine

\* if (intervalRef.current) clearInterval(intervalRef.current); live counts
\* the interval timers set for the session and not cleared
ClearInterval(engine) ==
  IF engine.intervalRef = "live"
  THEN [engine EXCEPT !.intervalRef = "cleared", !.live = @ - 1]
  ELSE engine

\* intervalRef.current = setInterval(...)
SetInterval(engine) == [engine EXCEPT !.intervalRef = "live", !.live = @ + 1]

\* startProcessing: clear the timer the ref holds, set a new one whose
\* callback closes over the current render
startProcessing(engine, sessions) ==
  [SetInterval(ClearInterval(engine)) EXCEPT !.seen = Snapshot(sessions)]

\* the effect on [session.isRunning, session.count], after the cleanup of
\* its previous run
StartEffect(engine, session, sessions, rerun) ==
  IF ~rerun THEN engine
  ELSE LET cleaned == ClearInterval(engine)
       IN IF session.isRunning /\ cleaned.processedRef < session.count
          THEN startProcessing(cleaned, sessions)
          ELSE IF cleaned.processedRef >= session.count /\ cleaned.intervalRef # "none"
          THEN [ClearInterval(cleaned) EXCEPT !.intervalRef = "none"]
          ELSE cleaned

\* a fresh component instance after its mount effects
Mount(session, sessions, player1, player2) ==
  StartEffect([Unmounted EXCEPT !.mounted = TRUE,
                                !.processedRef = InitProcessed(session),
                                !.stats = InitStats(session, player1, player2)],
              session, sessions, TRUE)

\* the cleanup on unmount; a timer it leaves running stays
Unmount(engine) == [Unmounted EXCEPT !.live = ClearInterval(engine).live]

\* a fresh instance in the place of an unmounted one
MountOver(old, session, sessions, player1, player2) ==
  [Mount(session, sessions, player1, player2) EXCEPT !.live = @ + Unmount(old).live]

\* results of processBatch
BatchResults(session, masterSeed, processed, currentBatch, player1, player2) ==
  [i \in 1..currentBatch |->
     ResolveGame(session.type, masterSeed, session.id, processed + i - 1, processed,
                 player1, player2)]

\* stats after the batch
BatchStats(type, stats, results, player1, player2) ==
  LET batchPlayer1Wins == Cardinality({k \in 1..Len(results) : results[k].winner = player1})
      batchPlayer2Wins == Cardinality({k \in 1..Len(results) :
                                         results[k].winner # player1 /\ results[k].winner = player2})
      batchTies == Cardinality({k \in 1..Len(results) :
                                  results[k].winner # player1 /\ results[k].winner # player2})
  IN [player1Wins |-> stats.player1Wins + batchPlayer1Wins,
      player2Wins |-> stats.player2Wins + batchPlayer2Wins,
      ties |-> IF type = "coin-flip" THEN stats.ties ELSE stats.ties + batchTies]

\* the third argument of onUpdate
Payload(type, results) ==
  IF type = "coin-flip"
  THEN Arr([k \in 1..Len(results) |-> Obj(results[k])])
  ELSE Obj(results[Len(results)])

HistoryOf(results) ==
  [k \in 1..Len(results) |-> [round |-> results[k].gameIndex + 1, winner |-> results[k].winner]]

\* the engine after processBatch
processBatch(engine, session, masterSeed, player1, player2) ==
  LET currentBatch == CurrentBatch(BatchSize(session), session.count, engine.processedRef)
      results == BatchResults(session, masterSeed, engine.processedRef, currentBatch,
                              player1, player2)
  IN IF currentBatch <= 0 THEN engine
     ELSE [engine EXCEPT
             !.processedRef = Advance(engine.processedRef, currentBatch),
             !.stats = BatchStats(session.type, engine.stats, results, player1, player2),
             !.history = engine.history \o HistoryOf(results),
             !.lastBatch = [batchStart |-> engine.processedRef, batchSize |-> currentBatch],
             !.batches = engine.batches + 1]

\* ------------------------------------------------------------------------
\* Actions
\* ------------------------------------------------------------------------
ClockStart == 4095

NoResult == [kind |-> "none", num |-> 0, den |-> 1]

DeriveIdle ==
  /\ clock = ClockStart
  /\ hasTextEncoder = TRUE
  /\ args = [seedHex |-> Undefined, context |-> Undefined, step |-> Undefined]
  /\ calls = 0
  /\ first = NoResult
  /\ last = NoResult

AppIdle ==
  /\ appState = InitialAppState
  /\ engines = [i \in 1..Len(gameConfigs) |-> Unmounted]
  /\ pending = 0
  /\ starts = 0
  /\ nextId = 1
  /\ remounts = 0

NoRule == [game |-> "none"]

\* an engine instance: mounted or not, what intervalRef.current (or the
\* `interval` of the effect closure) holds, the interval timers set by the
\* instances of this session and not cleared, and the session.completed the
\* interval callback closed over
NoEngine ==
  [mounted |-> FALSE, intervalRef |-> "none", live |-> 0, closure |-> 0]

\* the dashboard before a start: the stream on, no session to render;
\* lastUpdate tells whether the last call of onUpdate named a session of the
\* list ("own") or none of them ("late")
Dash == [streamEnabled |-> TRUE, engine |-> <<>>, lastUpdate |-> "none"]

AuxIdle ==
  /\ rule = NoRule
  /\ hands = Dash
  /\ timers = {}

Init == DeriveIdle /\ AppIdle /\ AuxIdle

\* typing in the first name input
SetPlayer1(label) ==
  /\ Len(appState.sessions) = 0
  /\ label # appState.player1
  /\ appState' = [appState EXCEPT !.player1 = label]
  /\ UNCHANGED <<engines, pending, starts, nextId, remounts, deriveVars, auxVars>>

\* typing in the second name input
SetPlayer2(label) ==
  /\ Len(appState.sessions) = 0
  /\ label # appState.player2
  /\ appState' = [appState EXCEPT !.player2 = label]
  /\ UNCHANGED <<engines, pending, starts, nextId, remounts, deriveVars, auxVars>>

\* startGameSessions up to its await
StartClick ==
  /\ Len(appState.sessions) = 0
  /\ canStart(appState)
  /\ starts < MaxStarts
  /\ starts' = starts + 1
  /\ pending' = pending + 1
  /\ UNCHANGED <<appState, engines, nextId, remounts, deriveVars, auxVars>>

\* variant of NewSession that hands out sessions already played
NewSessionDone(config, id) ==
  [id |-> id, type |-> config.type, count |-> config.count, completed |-> config.count,
   results |-> <<>>, isRunning |-> FALSE, winner |-> UndefinedWinner]

\* an element of newSessions in startGameSessions
NewSession(config, id) ==
  [id |-> id, type |-> config.type, count |-> config.count, completed |-> 0,
   results |-> <<>>, isRunning |-> TRUE, winner |-> UndefinedWinner]

\* startGameSessions from its await on, and the render that mounts the engines
StartResolve ==
  /\ pending > 0
  /\ \E s \in 1..Len(SeedPool) :
       LET newSessions == [j \in 1..Len(gameConfigs) |->
                             NewSession(gameConfigs[j], SessionIds[nextId + j - 1])]
       IN /\ appState' = [appState EXCEPT !.sessions = newSessions,
                                          !.isRunning = TRUE,
                                          !.masterSeed = SeedHexPool[s]]
          /\ engines' = [j \in 1..Len(gameConfigs) |->
                           MountOver(engines[j], newSessions[j], newSessions,
                                     appState.player1, appState.player2)]
  /\ pending' = pending - 1
  /\ nextId' = nextId + Len(gameConfigs)
  /\ UNCHANGED <<starts, remounts, deriveVars, auxVars>>

\* one firing of the interval of the engine of session i, with the update of
\* the page and the render that follow
Tick(i) ==
  /\ i \in 1..Len(appState.sessions)
  /\ engines[i].intervalRef = "live"
  /\ LET session == appState.sessions[i]
         engine == engines[i]
     IN IF engine.processedRef >= session.count
        THEN /\ engines' = [engines EXCEPT ![i] =
                               [ClearInterval(engine) EXCEPT !.intervalRef = "none"]]
             /\ UNCHANGED appState
        ELSE \E after \in {processBatch(engine, session, appState.masterSeed,
                                        appState.player1, appState.player2)} :
               IF after = engine
               THEN UNCHANGED <<appState, engines>>
               ELSE \E state \in {updateSessionProgress(appState, engine.seen, session.id,
                                     after.processedRef,
                                     Payload(session.type,
                                             BatchResults(session, appState.masterSeed,
                                                          after.lastBatch.batchStart,
                                                          after.lastBatch.batchSize,
                                                          appState.player1, appState.player2)))} :
                      /\ appState' = state
                      /\ engines' = [engines EXCEPT ![i] =
                            StartEffect(after, state.sessions[i], state.sessions,
                                        state.sessions[i].isRunning # session.isRunning)]
  /\ UNCHANGED <<pending, starts, nextId, remounts, deriveVars, auxVars>>

resetAll ==
  /\ appState' = InitialAppState
  /\ engines' = [i \in 1..Len(gameConfigs) |-> Unmount(engines[i])]
  /\ UNCHANGED <<pending, starts, nextId, remounts, deriveVars, auxVars>>

Next ==
  \/ \E label \in PlayerLabels : SetPlayer1(label)
  \/ \E label \in PlayerLabels : SetPlayer2(label)
  \/ StartClick
  \/ StartResolve
  \/ \E i \in 1..Len(gameConfigs) : Tick(i)
  \/ resetAll

Spec == Init /\ [][Next]_vars

\* ENABLED <<Tick(i)>>_vars: the interval of engine i is live (its callback
\* then either clears the interval or resolves a batch)
TickEnabled(i) == i \in 1..Len(appState.sessions) /\ engines[i].intervalRef = "live"

\* weak fairness of Tick(i), with ENABLED <<Tick(i)>>_vars written as
\* TickEnabled(i)
TickFair(i) == []<>(~TickEnabled(i)) \/ []<><<Tick(i)>>_vars

\* every live interval keeps firing and every seed request resolves
Fairness ==
  /\ \A i \in 1..Len(gameConfigs) : TickFair(i)
  /\ WF_vars(StartResolve)

SpecFair == Spec /\ Fairness

\* ------------------------------------------------------------------------
\* Unmounting and mounting an engine again under the same session
\* ------------------------------------------------------------------------
Remount(i) ==
  /\ i \in 1..Len(appState.sessions)
  /\ engines[i].mounted
  /\ appState.sessions[i].completed <= RemountBy
  /\ remounts < MaxRemounts
  /\ remounts' = remounts + 1
  /\ engines' = [engines EXCEPT ![i] =
        MountOver(engines[i], appState.sessions[i], appState.sessions,
                  appState.player1, appState.player2)]
  /\ UNCHANGED <<appState, pending, starts, nextId, deriveVars, auxVars>>

NextRemount ==
  \/ StartClick
  \/ StartResolve
  \/ \E i \in 1..Len(gameConfigs) : Tick(i)
  \/ \E i \in 1..Len(gameConfigs) : Remount(i)

SpecRemount == Init /\ [][NextRemount]_vars

\* ------------------------------------------------------------------------
\* Calls of deriveGameRandom on arbitrary arguments
\* ------------------------------------------------------------------------
HexSeedOne == SeedHexPool[1]

\* `coin-assignment-${session.id}` of CoinFlipEngine
CoinAssignmentContext(id) ==
  <<99, 111, 105, 110, 45, 97, 115, 115, 105, 103, 110, 109, 101, 110, 116, 45>> \o id

SeedInputs ==
  { Str(<<>>), Undefined, Num(5),
    Str(HexSeedOne),
    Str(<<122, 122>>),        \* "zz"
    Str(<<107, 103>>),        \* "kg"
    Str(<<10>>),              \* "\n"
    Str(<<97, 10, 98>>),      \* "a\nb"
    Str(<<233, 45, 102>>),    \* "e-acute", "-f"
    Str(<<115, 101, 101, 100, 45, 111, 110, 101>>) }   \* "seed-one"

ContextInputs ==
  { Str(<<102, 108, 105, 112, 45, 115, 49>>),   \* "flip-s1"
    Str(<<116, 105>>),                          \* "ti"
    Str(CoinAssignmentContext(IdOf(1))),        \* 31 characters
    Str(<<>>), Undefined, Num(5) }

StepInputs == { Num(0), Num(1), Num(7), Num(-1), Frac(1, <<53>>), NaNVal, Undefined }

InitDerive ==
  /\ clock = ClockStart
  /\ hasTextEncoder \in BOOLEAN
  /\ args \in [seedHex : SeedInputs, context : ContextInputs, step : StepInputs]
  /\ calls = 0
  /\ first = NoResult
  /\ last = NoResult
  /\ AppIdle
  /\ AuxIdle

\* one call deriveGameRandom(args.seedHex, args.context, args.step)
Call ==
  /\ calls < MaxCalls
  /\ LET r == deriveGameRandom(args.seedHex, args.context, args.step, clock, hasTextEncoder)
     IN /\ last' = r
        /\ first' = IF calls = 0 THEN r ELSE first
  /\ calls' = calls + 1
  /\ UNCHANGED <<clock, hasTextEncoder, args, appVars, auxVars>>

\* time passes
ClockTick ==
  /\ clock < MaxClock
  /\ clock' = clock + 1
  /\ UNCHANGED <<hasTextEncoder, args, calls, first, last, appVars, auxVars>>

NextDerive == Call \/ ClockTick

SpecDerive == InitDerive /\ [][NextDerive]_vars

\* ------------------------------------------------------------------------
\* The game rules on their own: every pair of moves, every pair of cards
\* ------------------------------------------------------------------------
\* determineWinner of RockPaperScissorsEngine
engineDetermineWinner(move1, move2) ==
  IF move1 = move2 THEN "tie"
  ELSE IF \/ (move1 = "rock" /\ move2 = "scissors")
          \/ (move1 = "paper" /\ move2 = "rock")
          \/ (move1 = "scissors" /\ move2 = "paper")
       THEN "player1"
       ELSE "player2"

\* gameResult === "player1" ? player1 : gameResult === "player2" ? player2 : "Tie"
EngineWinner(gameResult, player1, player2) ==
  IF gameResult = "player1" THEN player1
  ELSE IF gameResult = "player2" THEN player2
  ELSE "Tie"

\* a derived value seed with Math.floor(seed * 52) = cardIndex
CardSeed(cardIndex) == Val(2 * cardIndex + 1, 104)

\* the card drawCard gives for a card index
CardOf(cardIndex) == drawCard(CardSeed(cardIndex))

\* WHEEL_SEGMENTS of WheelSpinEngine: the player of each segment
WHEEL_SEGMENTS == <<1, 2, 1, 2, 1, 2, 1, 2>>

Pending == "pending"

\* values deriveGameRandom hands to a coin: the two ends of its range, the
\* 0 of its catch block, 0.5 and a value on either side of it
CoinValues == {Val(0, 1), ValMin, Val(1, 4), ValHalf, Val(3, 4), ValMax}

\* the games to resolve, with the labels the two players carry
RuleInputs ==
  [game : {"rps"}, move1 : {MOVES[k] : k \in 1..Len(MOVES)},
   move2 : {MOVES[k] : k \in 1..Len(MOVES)}, card1 : {0}, card2 : {0},
   assignment : {ValHalf}, flip : {ValHalf},
   heads : {Pending}, tails : {Pending}, result : {Pending},
   player1 : {"Pranav", "Manit"}, player2 : {"Manit"},
   winner : {Pending}, engineWinner : {Pending}]
  \cup
  [game : {"cards"}, move1 : {"rock"}, move2 : {"rock"}, card1 : 0..51, card2 : 0..51,
   assignment : {ValHalf}, flip : {ValHalf},
   heads : {Pending}, tails : {Pending}, result : {Pending},
   player1 : {"Pranav", "Manit"}, player2 : {"Manit"},
   winner : {Pending}, engineWinner : {Pending}]
  \cup
  [game : {"coin"}, move1 : {"rock"}, move2 : {"rock"}, card1 : {0}, card2 : {0},
   assignment : CoinValues, flip : CoinValues,
   heads : {Pending}, tails : {Pending}, result : {Pending},
   player1 : {"Pranav", "Manit", "Tie"}, player2 : {"Manit"},
   winner : {Pending}, engineWinner : {Pending}]

InitRules ==
  /\ rule \in RuleInputs
  /\ hands = Dash
  /\ timers = {}
  /\ DeriveIdle
  /\ AppIdle

\* EnhancedRPS resolves the round
PlayEnhanced ==
  /\ rule.game = "rps"
  /\ rule.winner = Pending
  /\ rule' = [rule EXCEPT !.winner =
                determineWinner(rule.move1, rule.move2, rule.player1, rule.player2)]
  /\ UNCHANGED <<hands, timers, deriveVars, appVars>>

\* RockPaperScissorsEngine resolves the round
PlayEngine ==
  /\ rule.game = "rps"
  /\ rule.engineWinner = Pending
  /\ rule' = [rule EXCEPT !.engineWinner =
                EngineWinner(engineDetermineWinner(rule.move1, rule.move2),
                             rule.player1, rule.player2)]
  /\ UNCHANGED <<hands, timers, deriveVars, appVars>>

\* HighCardGame draws the two cards and resolves the deal
DealCards ==
  /\ rule.game = "cards"
  /\ rule.winner = Pending
  /\ rule' = [rule EXCEPT !.winner =
                CardWinner(CardOf(rule.card1), CardOf(rule.card2),
                           rule.player1, rule.player2)]
  /\ UNCHANGED <<hands, timers, deriveVars, appVars>>

\* the effect of CoinFlip: the two players are assigned to heads and tails
AssignSides ==
  /\ rule.game = "coin"
  /\ rule.heads = Pending
  /\ LET headsPlayer == IF LessThanHalf(rule.assignment) THEN rule.player1 ELSE rule.player2
     IN rule' = [rule EXCEPT !.heads = headsPlayer,
                             !.tails = TailsPlayer(headsPlayer, rule.player1, rule.player2)]
  /\ UNCHANGED <<hands, timers, deriveVars, appVars>>

\* flipCoin: if (!assignment) return; the face, then assignment[coinResult]
flipCoin ==
  /\ rule.game = "coin"
  /\ rule.heads # Pending
  /\ rule.result = Pending
  /\ LET coinResult == IF LessThanHalf(rule.flip) THEN "heads" ELSE "tails"
     IN rule' = [rule EXCEPT !.result = coinResult,
                             !.winner = IF coinResult = "heads" THEN rule.heads
                                        ELSE rule.tails]
  /\ UNCHANGED <<hands, timers, deriveVars, appVars>>

NextRules == PlayEnhanced \/ PlayEngine \/ DealCards \/ AssignSides \/ flipCoin

SpecRules == InitRules /\ [][NextRules]_vars

\* ------------------------------------------------------------------------
\* The hand games: BlackjackEngine, PokerHandEngine, DeckShuffleEngine
\* ------------------------------------------------------------------------
DeckSuits == <<"spades", "hearts", "diamonds", "clubs">>

AceFirstRanks == <<"A", "2", "3", "4", "5", "6", "7", "8", "9", "10", "J", "Q", "K">>

CardColor(suit) == IF suit \in {"hearts", "diamonds"} THEN "red" ELSE "black"

\* value of a rank in BlackjackEngine.createDeck
BlackjackValue(rankIndex) ==
  IF rankIndex = 1 THEN 11 ELSE IF rankIndex >= 11 THEN 10 ELSE rankIndex

\* value of a rank in createDeck of the given game
DeckValue(game, rankIndex) ==
  IF game = "blackjack" THEN BlackjackValue(rankIndex)
  ELSE IF game = "poker-hand" THEN rankIndex + 1
  ELSE rankIndex

\* createDeck of the given game: suit by suit, rank by rank
createDeck(game) ==
  [k \in 1..52 |->
     LET suit == DeckSuits[((k - 1) \div 13) + 1]
         rankIndex == ((k - 1) % 13) + 1
     IN [suit |-> suit,
         rank |-> IF game = "poker-hand" THEN RANKS[rankIndex] ELSE AceFirstRanks[rankIndex],
         value |-> DeckValue(game, rankIndex),
         color |-> CardColor(suit)]]

\* `-blackjack-`, `-poker-`, `-shuffle-`
HandSeedInfix(game) ==
  IF game = "blackjack" THEN <<45, 98, 108, 97, 99, 107, 106, 97, 99, 107, 45>>
  ELSE IF game = "poker-hand" THEN <<45, 112, 111, 107, 101, 114, 45>>
  ELSE <<45, 115, 104, 117, 102, 102, 108, 101, 45>>

\* `${masterSeed}-blackjack-${gameIndex}` and its like
HandSeed(game, masterSeed, gameIndex) ==
  masterSeed \o HandSeedInfix(game) \o NumToString(gameIndex)

RECURSIVE CharSumRange(_, _, _)
\* the sum of seed.charCodeAt(i) over the positions lo..hi, in two halves
CharSumRange(seed, lo, hi) ==
  IF lo > hi THEN 0
  ELSE IF lo = hi THEN seed[lo]
  ELSE CharSumRange(seed, lo, (lo + hi) \div 2) + CharSumRange(seed, ((lo + hi) \div 2) + 1, hi)

\* seedNum += seed.charCodeAt(i) over the first n characters
CharSum(seed, n) == CharSumRange(seed, 1, n)

\* (seedNum * 9301 + 49297) % 233280, in two parts that stay below 2^31
LcgNext(seedNum) ==
  (((seedNum * 9000) % 233280) + seedNum * 301 + 49297) % 233280

\* variant of SwapCards that copies shuffled[j] to position i and leaves
\* position j as it is
SwapCardsOneWay(deck, i, j) == [deck EXCEPT ![i + 1] = deck[j + 1]]

\* [shuffled[i], shuffled[j]] = [shuffled[j], shuffled[i]] on 0-based i, j
SwapCards(deck, i, j) ==
  [deck EXCEPT ![i + 1] = deck[j + 1], ![j + 1] = deck[i + 1]]

\* one iteration of the loop of shuffleDeck at position i
SwapStep(state, i) ==
  LET next == LcgNext(state.seedNum)
  IN [deck |-> SwapCards(state.deck, i, next % (i + 1)), seedNum |-> next]

RECURSIVE ShuffleRange(_, _, _)
\* the iterations i = hi down to lo of the loop, the upper half first
ShuffleRange(state, hi, lo) ==
  IF hi < lo THEN state
  ELSE IF hi = lo THEN SwapStep(state, hi)
  ELSE CHOOSE r \in
         { ShuffleRange(upper, (hi + lo) \div 2, lo) :
             upper \in {ShuffleRange(state, hi, ((hi + lo) \div 2) + 1)} } : TRUE

\* the loop for (let i = shuffled.length - 1; i > 0; i--) from i downwards
ShuffleFrom(shuffled, seedNum, i) ==
  ShuffleRange([deck |-> shuffled, seedNum |-> seedNum], i, 1).deck

\* variant of shuffleDeck whose last swap copies the second card over the
\* first
shuffleDeckOneWay(deck, seed) ==
  SwapCardsOneWay(ShuffleFrom(deck, CharSum(seed, Len(seed)), Len(deck) - 1), 0, 1)

shuffleDeck(deck, seed) == ShuffleFrom(deck, CharSum(seed, Len(seed)), Len(deck) - 1)

RECURSIVE SumValues(_, _)
SumValues(cards, n) == IF n = 0 THEN 0 ELSE SumValues(cards, n - 1) + cards[n].value

RECURSIVE SoftenAces(_, _)
\* while (score > 21 && aces > 0) { score -= 10; aces-- }
SoftenAces(score, aces) ==
  IF score > 21 /\ aces > 0 THEN SoftenAces(score - 10, aces - 1) ELSE score

calculateScore(cards) ==
  SoftenAces(SumValues(cards, Len(cards)),
             Cardinality({k \in 1..Len(cards) : cards[k].rank = "A"}))

RECURSIVE HitUntil17(_, _, _)
\* while (calculateScore(cards) < 17 && calculateScore(cards) <= 21) cards.push(shuffled[deckIndex++])
HitUntil17(cards, deckIndex, shuffled) ==
  IF calculateScore(cards) < 17 /\ calculateScore(cards) <= 21
  THEN HitUntil17(Append(cards, shuffled[deckIndex + 1]), deckIndex + 1, shuffled)
  ELSE [cards |-> cards, deckIndex |-> deckIndex]

\* variant of BlackjackHand in which the higher score wins, bust or not
BlackjackHandHigher(masterSeed, gameIndex, player1, player2) ==
  LET seed == HandSeed("blackjack", masterSeed, gameIndex)
  IN CHOOSE r \in
       { LET hit1 == HitUntil17(<<shuffled[1], shuffled[3]>>, 4, shuffled)
             hit2 == HitUntil17(<<shuffled[2], shuffled[4]>>, hit1.deckIndex, shuffled)
             player1Score == calculateScore(hit1.cards)
             player2Score == calculateScore(hit2.cards)
         IN [winner |-> IF player1Score > player2Score THEN player1
                        ELSE IF player2Score > player1Score THEN player2
                        ELSE "Tie",
             player1Score |-> player1Score,
             player2Score |-> player2Score,
             gameIndex |-> gameIndex,
             seed |-> seed]
         : shuffled \in {shuffleDeck(createDeck("blackjack"), seed)} } : TRUE

\* playHand of BlackjackEngine
BlackjackHand(masterSeed, gameIndex, player1, player2) ==
  LET seed == HandSeed("blackjack", masterSeed, gameIndex)
  IN CHOOSE r \in
       { LET hit1 == HitUntil17(<<shuffled[1], shuffled[3]>>, 4, shuffled)
             hit2 == HitUntil17(<<shuffled[2], shuffled[4]>>, hit1.deckIndex, shuffled)
             player1Score == calculateScore(hit1.cards)
             player2Score == calculateScore(hit2.cards)
         IN [winner |-> IF player1Score > 21 /\ player2Score > 21 THEN "Tie"
                        ELSE IF player1Score > 21 THEN player2
                        ELSE IF player2Score > 21 THEN player1
                        ELSE IF player1Score > player2Score THEN player1
                        ELSE IF player2Score > player1Score THEN player2
                        ELSE "Tie",
             player1Score |-> player1Score,
             player2Score |-> player2Score,
             gameIndex |-> gameIndex,
             seed |-> seed]
         : shuffled \in {shuffleDeck(createDeck("blackjack"), seed)} } : TRUE

\* the cards and the scores playHand of BlackjackEngine returns, with the
\* deckIndex it ends at
BlackjackDeal(masterSeed, gameIndex) ==
  CHOOSE r \in
    { LET hit1 == HitUntil17(<<shuffled[1], shuffled[3]>>, 4, shuffled)
          hit2 == HitUntil17(<<shuffled[2], shuffled[4]>>, hit1.deckIndex, shuffled)
      IN [shuffled |-> shuffled,
          player1Cards |-> hit1.cards,
          player2Cards |-> hit2.cards,
          player1Score |-> calculateScore(hit1.cards),
          player2Score |-> calculateScore(hit2.cards),
          deckIndex |-> hit2.deckIndex]
      : shuffled \in {shuffleDeck(createDeck("blackjack"),
                                  HandSeed("blackjack", masterSeed, gameIndex))} } : TRUE

\* how often the value v occurs among the values
Occurrences(values, v) == Cardinality({k \in 1..Len(values) : values[k] = v})

\* Object.values(valueCounts).sort((a, b) => b - a) at position 0
TopCount(values) ==
  CHOOSE c \in 1..Len(values) :
    /\ \E k \in 1..Len(values) : Occurrences(values, values[k]) = c
    /\ \A k \in 1..Len(values) : Occurrences(values, values[k]) <= c

\* the same at position 1; 0 stands for undefined
SecondCount(values) ==
  LET top == CHOOSE v \in {values[k] : k \in 1..Len(values)} :
               Occurrences(values, v) = TopCount(values)
      rest == {values[k] : k \in 1..Len(values)} \ {top}
  IN IF rest = {} THEN 0
     ELSE CHOOSE c \in 1..Len(values) :
            /\ \E v \in rest : Occurrences(values, v) = c
            /\ \A v \in rest : Occurrences(values, v) <= c

\* evaluateHand(cards).score
evaluateHand(cards) ==
  LET values == [k \in 1..Len(cards) |-> cards[k].value]
      isFlush == \A k \in 1..Len(cards) : cards[k].suit = cards[1].suit
      isStraight == \A k \in 2..Len(cards) : values[k] = values[k - 1] + 1
      maxValue == CHOOSE v \in {values[k] : k \in 1..Len(values)} :
                    \A k \in 1..Len(values) : values[k] <= v
      top == TopCount(values)
      second == SecondCount(values)
  IN IF isFlush /\ isStraight /\ values[1] = 10 THEN 1000 + maxValue
     ELSE IF isFlush /\ isStraight THEN 900 + maxValue
     ELSE IF top = 4 THEN 800 + maxValue
     ELSE IF top = 3 /\ second = 2 THEN 700 + maxValue
     ELSE IF isFlush THEN 600 + maxValue
     ELSE IF isStraight THEN 500 + maxValue
     ELSE IF top = 3 THEN 400 + maxValue
     ELSE IF top = 2 /\ second = 2 THEN 300 + maxValue
     ELSE IF top = 2 THEN 200 + maxValue
     ELSE 100 + maxValue

\* evaluateHand(cards).rank
evaluateHandRank(cards) ==
  LET values == [k \in 1..Len(cards) |-> cards[k].value]
      isFlush == \A k \in 1..Len(cards) : cards[k].suit = cards[1].suit
      isStraight == \A k \in 2..Len(cards) : values[k] = values[k - 1] + 1
      top == TopCount(values)
      second == SecondCount(values)
  IN IF isFlush /\ isStraight /\ values[1] = 10 THEN "Royal Flush"
     ELSE IF isFlush /\ isStraight THEN "Straight Flush"
     ELSE IF top = 4 THEN "Four of a Kind"
     ELSE IF top = 3 /\ second = 2 THEN "Full House"
     ELSE IF isFlush THEN "Flush"
     ELSE IF isStraight THEN "Straight"
     ELSE IF top = 3 THEN "Three of a Kind"
     ELSE IF top = 2 /\ second = 2 THEN "Two Pair"
     ELSE IF top = 2 THEN "Pair"
     ELSE "High Card"

\* the cards and the hand ranks playHand of PokerHandEngine returns
PokerDeal(masterSeed, gameIndex) ==
  CHOOSE r \in
    { [shuffled |-> shuffled,
       player1Cards |-> SubSeq(shuffled, 1, 5),
       player2Cards |-> SubSeq(shuffled, 6, 10),
       player1Hand |-> evaluateHandRank(SubSeq(shuffled, 1, 5)),
       player2Hand |-> evaluateHandRank(SubSeq(shuffled, 6, 10))]
      : shuffled \in {shuffleDeck(createDeck("poker-hand"),
                                  HandSeed("poker-hand", masterSeed, gameIndex))} } : TRUE

\* playHand of PokerHandEngine
PokerHand(masterSeed, gameIndex, player1, player2) ==
  LET seed == HandSeed("poker-hand", masterSeed, gameIndex)
  IN CHOOSE r \in
       { LET player1Score == evaluateHand(SubSeq(shuffled, 1, 5))
             player2Score == evaluateHand(SubSeq(shuffled, 6, 10))
         IN [winner |-> IF player1Score > player2Score THEN player1
                        ELSE IF player2Score > player1Score THEN player2
                        ELSE "Tie",
             player1Score |-> player1Score,
             player2Score |-> player2Score,
             gameIndex |-> gameIndex,
             seed |-> seed]
         : shuffled \in {shuffleDeck(createDeck("poker-hand"), seed)} } : TRUE

\* performShuffle of DeckShuffleEngine; the scores are the values of the top
\* and the bottom card
ShuffleHand(masterSeed, gameIndex, player1, player2) ==
  LET seed == HandSeed("deck-shuffle", masterSeed, gameIndex)
  IN CHOOSE r \in
       { [winner |-> IF shuffled[1].color = "red" THEN player1 ELSE player2,
          player1Score |-> shuffled[1].value,
          player2Score |-> shuffled[52].value,
          gameIndex |-> gameIndex,
          seed |-> seed]
         : shuffled \in {shuffleDeck(createDeck("deck-shuffle"), seed)} } : TRUE

\* the result of one interval callback of a hand engine
playHand(game, masterSeed, gameIndex, player1, player2) ==
  IF game = "blackjack" THEN BlackjackHand(masterSeed, gameIndex, player1, player2)
  ELSE IF game = "poker-hand" THEN PokerHand(masterSeed, gameIndex, player1, player2)
  ELSE ShuffleHand(masterSeed, gameIndex, player1, player2)

\* ------------------------------------------------------------------------
\* MultiGameDashboard and the engines it mounts; the host keeps the sessions
\* and hands updateSessionProgress down as onSessionUpdate
\* ------------------------------------------------------------------------
\* the sessions the host starts: one engine of each kind under study, the
\* coin-flip session with the count of the page's configuration
DashConfigs ==
  << [type |-> "coin-flip", count |-> gameConfigs[1].count],
     [type |-> "blackjack", count |-> HandCount],
     [type |-> "poker-hand", count |-> HandCount],
     [type |-> "deck-shuffle", count |-> HandCount] >>

\* `coin-flip-${session.id}` of CoinFlipEngine
CoinFlipContext(id) == <<99, 111, 105, 110, 45, 102, 108, 105, 112, 45>> \o id

\* intervalRef.current = setInterval(...) / const interval = setInterval(...),
\* the callback closing over the session of this render
SetIntervalOver(engine, session) ==
  [SetInterval(engine) EXCEPT !.closure = session.completed]

\* the effect of BlackjackEngine, PokerHandEngine and DeckShuffleEngine
HandEffect(engine, session) ==
  IF ~session.isRunning \/ session.completed >= session.count
  THEN engine
  ELSE SetIntervalOver(engine, session)

\* the effect of CoinFlipEngine with startProcessing
CoinEffect(engine, session) ==
  IF session.isRunning /\ session.completed < session.count
  THEN SetIntervalOver(engine, session)
  ELSE engine

EngineEffect(engine, session) ==
  IF session.type = "coin-flip" THEN CoinEffect(engine, session)
  ELSE HandEffect(engine, session)

\* a component instance after its first effect run
MountEngine(session) ==
  EngineEffect([NoEngine EXCEPT !.mounted = TRUE], session)

\* the cleanup on unmount; a timer it leaves running stays
UnmountEngine(engine) ==
  [NoEngine EXCEPT !.live = ClearInterval(engine).live]

\* a render of the dashboard: the effect of a hand engine runs again on
\* every render (onStreamOperation is a new function each time), the one of
\* CoinFlipEngine when session.isRunning changed
Rerender(engine, before, after) ==
  IF ~engine.mounted THEN engine
  ELSE IF after.type = "coin-flip" /\ before.isRunning = after.isRunning THEN engine
  ELSE EngineEffect(ClearInterval(engine), after)

RerenderAll(engineSeq, before, after) ==
  [k \in 1..Len(engineSeq) |->
     IF k > Len(after) THEN engineSeq[k] ELSE Rerender(engineSeq[k], before[k], after[k])]

\* the timeouts whose effect run has been cleaned up
CancelAll(timeouts) == { [t EXCEPT !.cancelled = TRUE] : t \in timeouts }

\* one flip of CoinFlipEngine.processBatch in the batch that starts at batchStart
CoinEngineFlip(masterSeed, id, gameIndex, batchStart, player1, player2) ==
  LET assignmentRandom ==
        deriveGameRandom(Str(masterSeed), Str(CoinAssignmentContext(id)), Num(batchStart), 0, TRUE)
      flipRandom ==
        deriveGameRandom(Str(masterSeed), Str(CoinFlipContext(id)), Num(gameIndex), 0, TRUE)
      headsPlayer == IF LessThanHalf(assignmentRandom) THEN player1 ELSE player2
      tailsPlayer == TailsPlayer(headsPlayer, player1, player2)
      result == IF LessThanHalf(flipRandom) THEN "heads" ELSE "tails"
  IN [gameIndex |-> gameIndex, result |-> result,
      winner |-> IF result = "heads" THEN headsPlayer ELSE tailsPlayer,
      flipRandom |-> flipRandom]

\* the identifier of the coin-flip session of the n-th start
CoinSessionId(n) == IdOf((n - 1) * Len(DashConfigs) + 1)

\* const batchSize = 50 in CoinFlipEngine.startProcessing
CoinBatchSize == 50

\* the last flip of the batch CoinFlipEngine resolves from 0, for each
\* master seed and start, computed once
CoinMemo ==
  [s \in 1..Len(SeedPool) |->
    [n \in 1..MaxDashStarts |->
      CoinEngineFlip(SeedHexPool[s], CoinSessionId(n),
                     Min(CoinBatchSize, DashConfigs[1].count) - 1, 0,
                     "Pranav", "Manit")] \o <<>>]

\* the flip CoinFlipEngine pushes for gameIndex
CoinResult(masterSeed, id, gameIndex, batchStart, player1, player2) ==
  IF /\ gameIndex = Min(CoinBatchSize, DashConfigs[1].count) - 1
     /\ batchStart = 0
     /\ player1 = "Pranav"
     /\ player2 = "Manit"
     /\ \E n \in 1..MaxDashStarts : CoinSessionId(n) = id
  THEN CoinMemo[SeedIndex(masterSeed)][CHOOSE n \in 1..MaxDashStarts : CoinSessionId(n) = id]
  ELSE CoinEngineFlip(masterSeed, id, gameIndex, batchStart, player1, player2)

\* what the hand engines return for each master seed, game and index,
\* computed once
HandMemo ==
  [s \in 1..Len(SeedPool) |->
    [g \in 2..Len(DashConfigs) |->
      [n \in 1..DashConfigs[g].count |->
        playHand(DashConfigs[g].type, SeedHexPool[s], n - 1, "Pranav", "Manit")] \o <<>>]]

\* playHand / performShuffle(session.completed) in the interval callback
HandResult(type, masterSeed, gameIndex, player1, player2) ==
  LET g == CHOOSE k \in 2..Len(DashConfigs) : DashConfigs[k].type = type
  IN IF gameIndex < DashConfigs[g].count /\ player1 = "Pranav" /\ player2 = "Manit"
     THEN HandMemo[SeedIndex(masterSeed)][g][gameIndex + 1]
     ELSE playHand(type, masterSeed, gameIndex, player1, player2)

\* session.type as a string of characters
TypeChars(type) ==
  IF type = "coin-flip" THEN <<99, 111, 105, 110, 45, 102, 108, 105, 112>>
  ELSE IF type = "blackjack" THEN <<98, 108, 97, 99, 107, 106, 97, 99, 107>>
  ELSE IF type = "poker-hand" THEN <<112, 111, 107, 101, 114, 45, 104, 97, 110, 100>>
  ELSE <<100, 101, 99, 107, 45, 115, 104, 117, 102, 102, 108, 101>>

\* gameContext of CryptoTransparencyPanel: `${session.type}-${session.id}`
PanelContext(session) == TypeChars(session.type) \o <<45>> \o session.id

\* derivedValue of the panel for the first entries of the coin-flip session
\* of each master seed and start, computed once
PanelMemo ==
  [s \in 1..Len(SeedPool) |->
    [n \in 1..MaxDashStarts |->
      [index \in 1..MaxCoinTicks |->
        deriveGameRandom(Str(SeedHexPool[s]),
                         Str(TypeChars("coin-flip") \o <<45>> \o CoinSessionId(n)),
                         Num(index - 1), 0, TRUE)] \o <<>>] \o <<>>] \o <<>>

\* deriveGameRandom(masterSeed, gameContext, index) in the panel
PanelValue(masterSeed, session, index) ==
  IF /\ session.type = "coin-flip"
     /\ index < MaxCoinTicks
     /\ \E n \in 1..MaxDashStarts : CoinSessionId(n) = session.id
  THEN PanelMemo[SeedIndex(masterSeed)]
                [CHOOSE n \in 1..MaxDashStarts : CoinSessionId(n) = session.id][index + 1]
  ELSE deriveGameRandom(Str(masterSeed), Str(PanelContext(session)), Num(index), 0, TRUE)

\* the seedDerivation entry the panel builds for session.results[index]
seedDerivation(masterSeed, session, index) ==
  [gameIndex |-> index,
   sessionType |-> session.type,
   context |-> PanelContext(session),
   derivedValue |-> PanelValue(masterSeed, session, index),
   winner |-> WinnerProp(session.results[index + 1])]

InitDash ==
  /\ hands = Dash
  /\ timers = {}
  /\ rule = NoRule
  /\ DeriveIdle
  /\ AppIdle

\* the master seed of the start after n earlier ones: a fresh digest each time
FreshSeed(n) == SeedHexPool[(n % Len(SeedPool)) + 1]

\* the host starts a set of sessions under a fresh master seed
DashStart ==
  /\ Len(appState.sessions) = 0
  /\ starts < MaxDashStarts
  /\ LET newSessions == [j \in 1..Len(DashConfigs) |->
                           NewSession(DashConfigs[j], IdOf(nextId + j - 1))]
     IN /\ appState' = [appState EXCEPT !.sessions = newSessions,
                                        !.isRunning = TRUE,
                                        !.masterSeed = FreshSeed(starts)]
        /\ hands' = [hands EXCEPT !.engine =
                       [j \in 1..Len(DashConfigs) |-> MountEngine(newSessions[j])]]
  /\ starts' = starts + 1
  /\ nextId' = nextId + Len(DashConfigs)
  /\ UNCHANGED <<timers, rule, engines, pending, remounts, deriveVars>>

\* onUpdate names a session of the list, or none of them
UpdateKind(sessions, sessionId) ==
  IF \E k \in 1..Len(sessions) : sessions[k].id = sessionId THEN "own" ELSE "late"

\* a timeout for the session is set and has not fired: it is due before the
\* next tick of the session's interval
TimeoutPending(id) == \E t \in timers : t.id = id

\* the interval callback of a hand engine: play the hand of the closure's
\* session.completed, stream it, set the timeout that will call onUpdate
HandTick(i) ==
  /\ i \in 1..Len(appState.sessions)
  /\ appState.sessions[i].type # "coin-flip"
  /\ hands.engine[i].mounted
  /\ hands.engine[i].live > 0
  /\ ~TimeoutPending(appState.sessions[i].id)
  /\ LET session == appState.sessions[i]
         result == HandResult(session.type, appState.masterSeed, hands.engine[i].closure,
                              appState.player1, appState.player2)
         timeout == [id |-> session.id,
                     completed |-> hands.engine[i].closure + 1,
                     result |-> Obj(result),
                     seen |-> Snapshot(appState.sessions),
                     cancelled |-> FALSE]
     IN IF hands.streamEnabled
        THEN /\ timers' = CancelAll(timers \cup {timeout})
             /\ hands' = [hands EXCEPT !.engine =
                            RerenderAll(hands.engine, appState.sessions, appState.sessions)]
        ELSE /\ timers' = timers \cup {timeout}
             /\ UNCHANGED hands
  /\ UNCHANGED <<rule, appVars, deriveVars>>

\* the interval callback of CoinFlipEngine: the batch from the closure's
\* session.completed, onUpdate with the last flip, then the render
CoinTick(i) ==
  /\ i \in 1..Len(appState.sessions)
  /\ appState.sessions[i].type = "coin-flip"
  /\ hands.engine[i].mounted
  /\ hands.engine[i].live > 0
  /\ Len(appState.sessions[i].results) < MaxCoinTicks
  /\ LET session == appState.sessions[i]
         completed == hands.engine[i].closure
     IN IF completed >= session.count
        THEN /\ hands' = [hands EXCEPT !.engine[i] = ClearInterval(@)]
             /\ UNCHANGED <<appState, timers>>
        ELSE LET currentBatchSize == Min(CoinBatchSize, session.count - completed)
             IN \E state \in
                  { updateSessionProgress(
                      appState, Snapshot(appState.sessions), session.id,
                      completed + currentBatchSize,
                      Obj(CoinResult(appState.masterSeed, session.id,
                                     completed + currentBatchSize - 1, completed,
                                     appState.player1, appState.player2))) } :
                  /\ appState' = state
                  /\ timers' = CancelAll(timers)
                  /\ hands' = [hands EXCEPT
                                 !.engine = RerenderAll(hands.engine, appState.sessions,
                                                        state.sessions),
                                 !.lastUpdate = UpdateKind(appState.sessions, session.id)]
  /\ UNCHANGED <<rule, engines, pending, starts, nextId, remounts, deriveVars>>

\* a timeout fires: onUpdate(session.id, session.completed + 1, result),
\* then the render
TimeoutFire(t) ==
  /\ t \in timers
  /\ \E state \in { updateSessionProgress(appState, t.seen, t.id, t.completed, t.result) } :
       /\ appState' = state
       /\ timers' = CancelAll(timers \ {t})
       /\ hands' = [hands EXCEPT
                      !.engine = RerenderAll(hands.engine, appState.sessions, state.sessions),
                      !.lastUpdate = UpdateKind(appState.sessions, t.id)]
  /\ UNCHANGED <<rule, engines, pending, starts, nextId, remounts, deriveVars>>

\* the host discards the sessions (resetAll): every engine unmounts
DashReset ==
  /\ Len(appState.sessions) > 0
  /\ appState' = InitialAppState
  /\ hands' = [hands EXCEPT !.engine = [k \in 1..Len(@) |-> UnmountEngine(@[k])]]
  /\ timers' = CancelAll(timers)
  /\ UNCHANGED <<rule, engines, pending, starts, nextId, remounts, deriveVars>>

\* the Pause / Resume button of the tech stream
ToggleStream ==
  /\ hands' = [hands EXCEPT !.streamEnabled = ~@,
                            !.engine = RerenderAll(@, appState.sessions, appState.sessions)]
  /\ timers' = CancelAll(timers)
  /\ UNCHANGED <<rule, appVars, deriveVars>>

NextDash ==
  \/ DashStart
  \/ \E i \in 1..Len(DashConfigs) : HandTick(i)
  \/ \E i \in 1..Len(DashConfigs) : CoinTick(i)
  \/ \E t \in timers : TimeoutFire(t)
  \/ DashReset
  \/ ToggleStream

SpecDash == InitDash /\ [][NextDash]_vars
\* ------------------------------------------------------------------------
\* Hands played from given master seeds
\* ------------------------------------------------------------------------
\* masterSeedHex of a digest whose 32 bytes are all x
TableSeed(x) == BytesToHex([k \in 1..32 |-> x])

TableInputs ==
  [game : {"poker-hand", "blackjack"}, masterSeed : {TableSeed(x) : x \in 0..MaxDigestByte},
   gameIndex : 0..MaxTableIndex, player1 : {"Pranav"}, player2 : {"Manit"},
   played : {FALSE}, deal : {<<>>}, winner : {Pending}]

InitTable ==
  /\ rule \in TableInputs
  /\ hands = Dash
  /\ timers = {}
  /\ DeriveIdle
  /\ AppIdle

\* PokerHandEngine plays the hand of rule.gameIndex
PlayPoker ==
  /\ rule.game = "poker-hand"
  /\ ~rule.played
  /\ rule' = [rule EXCEPT
                !.played = TRUE,
                !.deal = PokerDeal(rule.masterSeed, rule.gameIndex),
                !.winner = PokerHand(rule.masterSeed, rule.gameIndex,
                                     rule.player1, rule.player2).winner]
  /\ UNCHANGED <<hands, timers, deriveVars, appVars>>

\* BlackjackEngine plays the hand of rule.gameIndex
PlayBlackjack ==
  /\ rule.game = "blackjack"
  /\ ~rule.played
  /\ rule' = [rule EXCEPT
                !.played = TRUE,
                !.deal = BlackjackDeal(rule.masterSeed, rule.gameIndex),
                !.winner = BlackjackHand(rule.masterSeed, rule.gameIndex,
                                         rule.player1, rule.player2).winner]
  /\ UNCHANGED <<hands, timers, deriveVars, appVars>>

NextTable == PlayPoker \/ PlayBlackjack

SpecTable == InitTable /\ [][NextTable]_vars


\* ------------------------------------------------------------------------
\* Claims about deriveGameRandom
\* ------------------------------------------------------------------------

\* C1: two calls of deriveGameRandom with the same arguments return the same
\* number, whenever they are made.
C1_Deterministic == calls >= 2 => first = last

\* [0.000001, 0.999999]
InRange(v) == v.kind = "number" /\ ~ValLess(v, ValMin) /\ ~ValLess(ValMax, v)

\* C2: every value deriveGameRandom returns lies in [0.000001, 0.999999], on
\* every path, the catch block included.
C2_Range == calls >= 1 => InRange(last)

\* C3: deriveGameRandom is total: for every input it returns a finite number
\* and raises no exception to its caller.
C3_Total == calls >= 1 => (last.kind = "number" /\ last.den > 0 /\ last.num >= 0)

\* C3 witness: garbage arguments in an environment where the try block raises
C3_Witness ==
  /\ calls >= 1
  /\ ~hasTextEncoder
  /\ args.seedHex = Str(<<10>>)
  /\ args.step = NaNVal
  /\ args.context = Undefined
  /\ last.kind = "number"

\* the step of SpecDerive that makes one call
IsCall == calls' = calls + 1

\* the indices a caller passes as step
Indices == { Num(k) : k \in 0..MaxIndex }

\* C11: the index takes part in the derivation: for no seed and no context
\* label does deriveGameRandom return the same value for every index.
C11_IndexMixed ==
  [][IsCall =>
       \E step \in Indices :
         deriveGameRandom(args.seedHex, args.context, step, clock, hasTextEncoder) # last']_vars

\* a non-empty string of hexadecimal digits
IsValidHex(s) == s # <<>> /\ \A k \in 1..Len(s) : IsHexChar(s[k])

\* the mix over the raw UTF-8 bytes of the seed string
RawBytesDerive(seedStr, context, step) ==
  Normalize(MixHash(Slice(Utf8Encode(seedStr), 32),
                    ContextBytes(ValidateContext(context), ValidateStep(step))))

\* C16: for a non-empty seedHex that is not valid hex, deriveGameRandom
\* returns the mix computed over the raw UTF-8 bytes of the string.
C16_RawBytes ==
  [][(/\ IsCall
      /\ hasTextEncoder
      /\ IsString(args.seedHex)
      /\ args.seedHex.str # <<>>
      /\ ~IsValidHex(args.seedHex.str))
     => last' = RawBytesDerive(args.seedHex.str, args.context, args.step)]_vars

\* !context || typeof context !== "string"
InvalidContext(context) == Falsy(context) \/ ~IsString(context)

\* C17: a NaN step is derived as step 0, and a context that is empty or not
\* a string is derived as "default-context", for every seed.
C17_Defaults ==
  [][IsCall =>
       /\ args.step = NaNVal =>
            last' = deriveGameRandom(args.seedHex, args.context, Num(0), clock, hasTextEncoder)
       /\ InvalidContext(args.context) =>
            last' = deriveGameRandom(args.seedHex, Str(DefaultContext), args.step,
                                     clock, hasTextEncoder)]_vars

\* C17 witness: a call with a NaN step and a context that is not a string
\* returned what step 0 of "default-context" gives
C17_Witness ==
  /\ calls >= 1
  /\ args.step = NaNVal
  /\ args.context = Num(5)
  /\ args.seedHex = Str(HexSeedOne)
  /\ last = deriveGameRandom(Str(HexSeedOne), Str(DefaultContext), Num(0), clock, hasTextEncoder)

\* a step that is a number, negative or not an integer
NegativeOrFractional(step) ==
  step.type = "number" /\ (step.num < 0 \/ step.frac # <<>>)

\* C18: a negative or fractional step is derived as step 0, for every seed
\* and context.
C18_StepCoerced ==
  [][(IsCall /\ NegativeOrFractional(args.step)) =>
       last' = deriveGameRandom(args.seedHex, args.context, Num(0), clock, hasTextEncoder)]_vars

\* C24: the indices the engines compute from a value deriveGameRandom has
\* returned are in range: Math.floor(v * 3) names a move, Math.floor(v * 52)
\* a card with a suit index in 0..3 and a rank index in 0..12, and
\* Math.floor(v * 8) a wheel segment
C24_IndicesInRange ==
  last.kind = "number" =>
    LET cardIndex == FloorTimes(last, 52)
    IN /\ FloorTimes(last, 3) \in 0..(Len(MOVES) - 1)
       /\ cardIndex \in 0..51
       /\ (cardIndex \div 13) \in 0..(Len(SUITS) - 1)
       /\ (cardIndex % 13) \in 0..(Len(RANKS) - 1)
       /\ FloorTimes(last, Len(WHEEL_SEGMENTS)) \in 0..(Len(WHEEL_SEGMENTS) - 1)

\* a call has returned a value that selects the last move, the last card
\* and the last wheel segment
C24_Witness ==
  /\ last.kind = "number"
  /\ FloorTimes(last, 3) = 2
  /\ FloorTimes(last, 52) = 51
  /\ FloorTimes(last, 8) = 7

\* ------------------------------------------------------------------------
\* Claims about the engines and the sessions
\* ------------------------------------------------------------------------
Sessions == 1..Len(appState.sessions)

Complete(session) == session.completed >= session.count

\* the flips of the batch GridCoinFlip reported last
LastFlips(session) ==
  IF Len(session.results) = 0 THEN <<>> ELSE session.results[Len(session.results)].val

\* C4: the winner of coin-flip index k does not depend on the batch it is
\* resolved in: resolving it alone or in a batch starting at any index <= k
\* gives the winner the engine reported.
C4_BatchIndependent ==
  \A i \in Sessions :
    LET session == appState.sessions[i]
    IN session.type = "coin-flip" =>
         \A j \in 1..Len(LastFlips(session)) :
           LET flip == LastFlips(session)[j].val
           IN \A batchStart \in 0..flip.gameIndex :
                FlipGame(appState.masterSeed, session.id, flip.gameIndex, batchStart,
                         appState.player1, appState.player2).winner = flip.winner

\* C5: an engine resumes where its session stands: every batch it resolves
\* starts at index session.completed, also after the engine was unmounted
\* and mounted again, and gives each index the winner an uninterrupted run
\* from 0 gives it.
C5_Resumes ==
  [][\A i \in Sessions :
       (engines[i].mounted /\ engines'[i].batches = engines[i].batches + 1)
         => LET session == appState.sessions[i]
                batch == engines'[i].lastBatch
                history == engines'[i].history
            IN /\ batch.batchStart = session.completed
               /\ \A j \in 1..batch.batchSize :
                    LET gameIndex == batch.batchStart + j - 1
                        start == (gameIndex \div BatchSize(session)) * BatchSize(session)
                    IN history[Len(history) - batch.batchSize + j].winner =
                         ResolveGame(session.type, appState.masterSeed, session.id,
                                     gameIndex, start,
                                     appState.player1, appState.player2).winner]_vars

\* C6: a session's results hold one entry per completed game, the i-th entry
\* being the result of game index i.
C6_OneResultPerGame ==
  \A i \in Sessions :
    LET session == appState.sessions[i]
    IN /\ Len(session.results) = session.completed
       /\ \A k \in 1..Len(session.results) :
            /\ session.results[k].type = "object"
            /\ session.results[k].val.gameIndex = k - 1

\* the player who won more of the games the engine resolved
MajorityOf(stats, player1, player2) ==
  IF stats.player1Wins > stats.player2Wins THEN player1
  ELSE IF stats.player2Wins > stats.player1Wins THEN player2
  ELSE "Tie"

\* C7: the winner of a complete session (of two players with different
\* names) is the player who won more of its count games, and "Tie" when both
\* won equally many.
C7_MajorityWinner ==
  \A i \in Sessions :
    LET session == appState.sessions[i]
    IN (/\ Complete(session)
        /\ engines[i].processedRef = session.count
        /\ appState.player1 # appState.player2) =>
         session.winner = MajorityOf(engines[i].stats, appState.player1, appState.player2)

SessionDone(session, engine) ==
  /\ session.completed = session.count
  /\ ~session.isRunning
  /\ Len(engine.history) = session.count

AllDone == \A i \in Sessions : SessionDone(appState.sessions[i], engines[i])

\* the games an engine resolved so far are 0, 1, 2, ... in this order
InOrder ==
  \A i \in Sessions :
    /\ Len(engines[i].history) = engines[i].processedRef
    /\ \A j \in 1..Len(engines[i].history) : engines[i].history[j].round = j

\* C8: with every live interval firing again and again, each session of the
\* list reaches completed = count with isRunning false while it is in the
\* list, its engine having resolved each index 0..count-1 once, in
\* increasing order.
C8_Completes ==
  /\ []InOrder
  /\ (Len(appState.sessions) > 0) ~> (AllDone \/ Len(appState.sessions) = 0)

C8_Witness ==
  /\ Len(appState.sessions) = Len(gameConfigs)
  /\ \A i \in Sessions :
       /\ appState.sessions[i].completed = appState.sessions[i].count
       /\ ~appState.sessions[i].isRunning
       /\ Len(engines[i].history) = appState.sessions[i].count
       /\ engines[i].history[appState.sessions[i].count].round = appState.sessions[i].count

\* C9: 0 <= completed <= count in every session, and every batch an engine
\* resolves has exactly min(batchSize, count - processed) games, a positive
\* number, so that completed never exceeds count.
C9_Bounded ==
  \A i \in Sessions :
    LET session == appState.sessions[i]
        batch == engines[i].lastBatch
    IN /\ session.completed >= 0
       /\ session.completed <= session.count
       /\ engines[i].processedRef <= session.count
       /\ engines[i].batches > 0 =>
            /\ batch.batchSize > 0
            /\ batch.batchSize =
                 IF BatchSize(session) < session.count - batch.batchStart
                 THEN BatchSize(session) ELSE session.count - batch.batchStart
            /\ session.completed = batch.batchStart + batch.batchSize

\* the last, short batch of HighCardGame: 25 = 8 * 3 + 1
C9_Witness ==
  \E i \in Sessions :
    /\ appState.sessions[i].type = "high-card"
    /\ appState.sessions[i].completed = appState.sessions[i].count
    /\ engines[i].lastBatch.batchSize = 1
    /\ engines[i].intervalRef = "none"

\* C10: once a session is complete, no later tick or update changes its
\* completed count, results or winner or sets it running again, as long as
\* the session is in the list.
C10_Terminal ==
  [][\A i \in Sessions :
       LET session == appState.sessions[i]
       IN (Complete(session) /\ ~session.isRunning /\ session.winner # UndefinedWinner)
            => \A j \in 1..Len(appState'.sessions) :
                 appState'.sessions[j].id = session.id => appState'.sessions[j] = session]_vars

\* a session complete for a while: the others went on and completed after it
C10_Witness ==
  /\ Len(appState.sessions) = Len(gameConfigs)
  /\ \A i \in Sessions :
       /\ Complete(appState.sessions[i])
       /\ ~appState.sessions[i].isRunning
       /\ appState.sessions[i].winner # UndefinedWinner
       /\ engines[i].intervalRef = "none"
  /\ Len(appState.sessions[3].results) > 0

\* ------------------------------------------------------------------------
\* Claims about the game rules
\* ------------------------------------------------------------------------
\* two players that can be told apart in a result
Distinguishable(player1, player2) == player1 # player2 /\ "Tie" \notin {player1, player2}

\* rock beats scissors, scissors beats paper, paper beats rock
Beats(m1, m2) ==
  <<m1, m2>> \in { <<"rock", "scissors">>, <<"scissors", "paper">>, <<"paper", "rock">> }

\* C19: rock-paper-scissors: the result is "Tie" iff the moves are equal,
\* player1 iff the pair is (rock, scissors), (scissors, paper) or (paper,
\* rock), player2 otherwise; EnhancedRPS and RockPaperScissorsEngine name
\* the same winner for every pair.
C19_RpsRule ==
  rule.game = "rps" =>
    /\ (rule.winner # Pending /\ Distinguishable(rule.player1, rule.player2)) =>
         /\ rule.winner = "Tie" <=> rule.move1 = rule.move2
         /\ rule.winner = rule.player1 <=> Beats(rule.move1, rule.move2)
         /\ rule.winner = rule.player2 <=>
              (rule.move1 # rule.move2 /\ ~Beats(rule.move1, rule.move2))
    /\ (rule.winner # Pending /\ rule.engineWinner # Pending) =>
         rule.winner = rule.engineWinner

\* C19 witness: scissors against paper, resolved by both engines for player1
C19_Witness ==
  /\ rule.game = "rps"
  /\ rule.move1 = "scissors"
  /\ rule.move2 = "paper"
  /\ rule.player1 # rule.player2
  /\ rule.winner = rule.player1
  /\ rule.engineWinner = rule.player1

\* rank and suit of the card with a given index, in the claim's order:
\* ranks 2..10, J, Q, K, A count 2..14; spade > heart > diamond > club
RankOf(cardIndex) == (cardIndex % 13) + 2
SuitName(cardIndex) == <<"spades", "hearts", "diamonds", "clubs">>[(cardIndex \div 13) + 1]
SuitStrength(suit) ==
  CHOOSE k \in 1..4 : <<"clubs", "diamonds", "hearts", "spades">>[k] = suit

\* the winner with the two players exchanged
Exchanged(winner, player1, player2) ==
  IF winner = player1 THEN player2 ELSE IF winner = player2 THEN player1 ELSE winner

\* C20: high card: the higher rank wins (Ace = 14 highest); on equal rank
\* the higher suit in the order spade > heart > diamond > club wins; the
\* result is "Tie" iff both players drew the same card; exchanging the two
\* cards exchanges the winner.
C20_HighCardRule ==
  (/\ rule.game = "cards"
   /\ rule.winner # Pending
   /\ Distinguishable(rule.player1, rule.player2)) =>
    LET card1 == CardOf(rule.card1)
        card2 == CardOf(rule.card2)
        rank1 == card1.value
        rank2 == card2.value
        suit1 == SuitStrength(card1.suit)
        suit2 == SuitStrength(card2.suit)
    IN /\ rank1 > rank2 => rule.winner = rule.player1
       /\ rank2 > rank1 => rule.winner = rule.player2
       /\ (rank1 = rank2 /\ suit1 > suit2) => rule.winner = rule.player1
       /\ (rank1 = rank2 /\ suit2 > suit1) => rule.winner = rule.player2
       /\ rule.winner = "Tie" <=> rule.card1 = rule.card2
       /\ card1.rank = "A" => rank1 = 14
       /\ rank1 = RankOf(rule.card1) /\ card1.suit = SuitName(rule.card1)
       /\ CardWinner(card2, card1, rule.player1, rule.player2)
            = Exchanged(rule.winner, rule.player1, rule.player2)

\* C20 witness: the ace of clubs beats the king of spades
C20_Witness ==
  /\ rule.game = "cards"
  /\ rule.card1 = 51
  /\ rule.card2 = 11
  /\ rule.player1 # rule.player2
  /\ rule.winner = rule.player1

\* C14: at every moment an engine instance has at most one live interval
\* timer for its session, whatever the order of mounts, effect re-runs,
\* ticks and completion
C14_OneTimer ==
  /\ \A i \in 1..Len(engines) : engines[i].live <= 1
  /\ \A k \in 1..Len(hands.engine) : hands.engine[k].live <= 1

\* a session was remounted while its timer ran, and the new instance has
\* processed a batch on the one timer it holds
C14_Witness ==
  /\ remounts > 0
  /\ \E i \in 1..Len(engines) :
       /\ engines[i].mounted
       /\ engines[i].intervalRef = "live"
       /\ engines[i].live = 1
       /\ engines[i].batches > 0

\* sub occurs in s
Contains(s, sub) ==
  \E k \in 0..(Len(s) - Len(sub)) : SubSeq(s, k + 1, k + Len(sub)) = sub

\* C12: every draw an engine makes for a session uses a derivation context
\* that contains the session's id: the two contexts of CoinFlipEngine, and
\* the seed string of every hand a blackjack, poker or deck shuffle engine
\* has played for the session
C12_ContextHasSessionId ==
  /\ \A i \in 1..Len(appState.sessions) :
       appState.sessions[i].type = "coin-flip"
         => /\ Contains(CoinAssignmentContext(appState.sessions[i].id), appState.sessions[i].id)
            /\ Contains(CoinFlipContext(appState.sessions[i].id), appState.sessions[i].id)
  /\ \A t \in timers : Contains(t.result.val.seed, t.id)

\* C15: cancellation is complete: once the cleanup of an effect run has run
\* (unmount, reset or a changed dependency), no timeout set by that run
\* calls onUpdate any more
C15_CancellationComplete ==
  [][\A t \in timers : TimeoutFire(t) => ~t.cancelled]_vars

\* every session of the list but the one with this id is what it was
OnlyChanged(sessionId) ==
  /\ Len(appState'.sessions) = Len(appState.sessions)
  /\ \A k \in 1..Len(appState.sessions) :
       appState.sessions[k].id # sessionId => appState'.sessions[k] = appState.sessions[k]

\* C13: updateSessionProgress(sessionId, completed, result) changes only the
\* session whose id is sessionId; every other session keeps its completed,
\* results, isRunning and winner, and a call whose id is the id of no
\* session of the list leaves every session as it was
C13_OnlyOwnSession ==
  [][/\ \A t \in timers : TimeoutFire(t) => OnlyChanged(t.id)
     /\ \A i \in 1..Len(appState.sessions) :
          CoinTick(i) => OnlyChanged(appState.sessions[i].id)]_vars

\* the timeout of a discarded session has called onUpdate while the sessions
\* of the next start were in the list, one of them already with a result
C13_Witness ==
  /\ hands.lastUpdate = "late"
  /\ \E k \in 1..Len(appState.sessions) : appState.sessions[k].completed > 0

\* C21: coin flip: heads and tails belong to the two different players when
\* the labels differ; the face is heads iff the flip value is below 0.5; the
\* winner is the owner of the face that came up, hence one of the two
\* players and never the verdict "Tie" (a label of its own, as in C19)
C21_CoinRule ==
  (rule.game = "coin" /\ rule.heads # Pending) =>
    /\ rule.player1 # rule.player2 =>
         /\ rule.heads # rule.tails
         /\ {rule.heads, rule.tails} = {rule.player1, rule.player2}
    /\ rule.result # Pending =>
         /\ rule.result = "heads" <=> RatLess(rule.flip.num, rule.flip.den, 1, 2)
         /\ rule.result = "heads" => rule.winner = rule.heads
         /\ rule.result = "tails" => rule.winner = rule.tails
         /\ rule.winner \in {rule.player1, rule.player2}
         /\ "Tie" \notin {rule.player1, rule.player2} => rule.winner # "Tie"

\* a flip of exactly 0.5 has come up tails and the tails player, who is
\* player1 here, has won
C21_Witness ==
  /\ rule.game = "coin"
  /\ rule.player1 = "Pranav"
  /\ rule.flip = ValHalf
  /\ rule.result = "tails"
  /\ rule.tails = rule.player1
  /\ rule.winner = "Pranav"

\* the identifiers createGameId has handed out so far
UsedIds == {IdOf(k) : k \in 1..(nextId - 1)}

IdsOf(sessions) == {sessions[k].id : k \in 1..Len(sessions)}

\* C22: a reset discards the old state: after resetAll the session list is
\* empty, the master seed null and isRunning false; every session the next
\* start creates has an id not handed out before, completed 0, no results
\* and no winner; and a result found in a session afterwards was played
\* under the master seed of that start
C22_ResetDiscards ==
  [][/\ DashReset =>
          /\ appState'.sessions = <<>>
          /\ appState'.masterSeed = NoSeed
          /\ ~appState'.isRunning
     /\ \A k \in 1..Len(appState'.sessions) :
          LET session == appState'.sessions[k]
          IN /\ session.id \notin IdsOf(appState.sessions) =>
                  /\ session.id \notin UsedIds
                  /\ session.completed = 0
                  /\ session.results = <<>>
                  /\ session.winner = UndefinedWinner
             /\ session.type # "coin-flip" =>
                  \A n \in 1..Len(session.results) :
                    session.results[n].val.seed =
                      HandSeed(session.type, appState'.masterSeed,
                               session.results[n].val.gameIndex)]_vars

\* after a reset and the next start a session of the new list has recorded
\* a result of its own, while a timeout of a discarded session is pending
C22_Witness ==
  /\ starts = 2
  /\ hands.lastUpdate = "own"
  /\ \E t \in timers : t.id \notin IdsOf(appState.sessions)
  /\ \E k \in 1..Len(appState.sessions) :
       /\ appState.sessions[k].type # "coin-flip"
       /\ Len(appState.sessions[k].results) > 0

\* C23: each tick of the interval of CoinFlipEngine starts at the completed
\* count the previous tick reported: a tick on an unfinished session moves
\* completed on by the batch it resolves, so that the ranges of successive
\* ticks are consecutive and no index is resolved twice
C23_TicksAdvance ==
  [][\A i \in 1..Len(appState.sessions) :
       (CoinTick(i) /\ appState.sessions[i].completed < appState.sessions[i].count) =>
         appState'.sessions[i].completed =
           appState.sessions[i].completed +
             Min(CoinBatchSize, appState.sessions[i].count - appState.sessions[i].completed)]_vars

\* every session of a non-empty list has completed >= count
AllComplete ==
  /\ Len(appState.sessions) > 0
  /\ \A i \in Sessions : Complete(appState.sessions[i])

\* C25: once every session of the list has completed >= count, the isRunning
\* flag of the application eventually becomes false (the "New Game" control
\* is rendered only then); while a session of the list is incomplete the
\* flag is true.
C25_FlagFalls ==
  /\ [](Len(appState.sessions) > 0 /\ ~AllComplete => appState.isRunning)
  /\ AllComplete ~> ~appState.isRunning

\* C26: in the analytics of the dashboard the wins of the two players and
\* the ties add up to totalGames, the sum of the sessions' completed counts,
\* when the two labels differ and neither is "Tie".
C26_TalliesAddUp ==
  (appState.player1 # appState.player2 /\ "Tie" \notin {appState.player1, appState.player2}) =>
    LET a == analytics(appState.sessions, appState.player1, appState.player2)
    IN a.player1TotalWins + a.player2TotalWins + a.totalTies = a.totalGames

\* the values of the cards are five consecutive distinct values
ConsecutiveValues(cards) ==
  \E low \in 2..10 : {cards[k].value : k \in 1..Len(cards)} = low..(low + 4)

SameSuit(cards) == \A k \in 1..Len(cards) : cards[k].suit = cards[1].suit

\* C27: evaluateHand of PokerHandEngine ranks every five-card hand whose
\* values are five consecutive distinct values as "Straight", or as
\* "Straight Flush" or "Royal Flush" when the suits are equal, whatever the
\* order the cards were dealt in.
C27_StraightFound ==
  (rule.game = "poker-hand" /\ rule.played) =>
    /\ ConsecutiveValues(rule.deal.player1Cards) =>
         rule.deal.player1Hand \in
           (IF SameSuit(rule.deal.player1Cards) THEN {"Straight Flush", "Royal Flush"}
            ELSE {"Straight"})
    /\ ConsecutiveValues(rule.deal.player2Cards) =>
         rule.deal.player2Hand \in
           (IF SameSuit(rule.deal.player2Cards) THEN {"Straight Flush", "Royal Flush"}
            ELSE {"Straight"})

RECURSIVE LcgAfter(_, _)
\* seedNum after n steps of the generator of shuffleDeck
LcgAfter(seedNum, n) ==
  IF n = 0 THEN seedNum
  ELSE IF n = 1 THEN LcgNext(seedNum)
  ELSE CHOOSE r \in { LcgAfter(half, n - (n \div 2)) :
                        half \in {LcgAfter(seedNum, n \div 2)} } : TRUE

\* the swap index j shuffleDeck draws at position i of a deck of 52 cards
SwapIndex(seed, i) == LcgAfter(CharSum(seed, Len(seed)), 52 - i) % (i + 1)

NoCardTwice(cards) ==
  \A a, b \in 1..Len(cards) : cards[a] = cards[b] => a = b

\* C28: shuffleDeck returns a permutation of the deck for every seed, each
\* swap index j with 0 <= j <= i, so that the hands dealt in blackjack and
\* poker never contain the same card twice.
C28_Permutation ==
  rule.played =>
    LET deck == createDeck(rule.game)
        seed == HandSeed(rule.game, rule.masterSeed, rule.gameIndex)
    IN /\ Len(rule.deal.shuffled) = Len(deck)
       /\ {rule.deal.shuffled[k] : k \in 1..Len(deck)} = {deck[k] : k \in 1..Len(deck)}
       /\ NoCardTwice(rule.deal.shuffled)
       /\ \A i \in 1..(Len(deck) - 1) : SwapIndex(seed, i) \in 0..i
       /\ NoCardTwice(rule.deal.player1Cards \o rule.deal.player2Cards)

\* a blackjack hand dealt from a deck the shuffle has reordered, in which a
\* player has drawn beyond the first two cards
C28_Witness ==
  /\ rule.played
  /\ rule.game = "blackjack"
  /\ rule.deal.deckIndex > 4
  /\ rule.deal.shuffled # createDeck("blackjack")

Bust(score) == score > 21

\* C29: in playHand of BlackjackEngine both players draw until their score
\* is 17 or more, from consecutive positions that stay inside the deck, and
\* the declared winner never has a score above 21: two bust hands give
\* "Tie", one bust hand gives the other player, otherwise the strictly
\* higher score wins and equal scores give "Tie".
C29_BlackjackRule ==
  (rule.game = "blackjack" /\ rule.played) =>
    LET deal == rule.deal
        score1 == deal.player1Score
        score2 == deal.player2Score
        drawn1 == Len(deal.player1Cards) - 2
    IN /\ score1 >= 17 /\ score2 >= 17
       /\ score1 = calculateScore(deal.player1Cards)
       /\ score2 = calculateScore(deal.player2Cards)
       /\ deal.deckIndex = Len(deal.player1Cards) + Len(deal.player2Cards)
       /\ deal.deckIndex <= Len(deal.shuffled)
       /\ \A k \in 1..drawn1 : deal.player1Cards[2 + k] = deal.shuffled[4 + k]
       /\ \A k \in 1..(Len(deal.player2Cards) - 2) :
            deal.player2Cards[2 + k] = deal.shuffled[4 + drawn1 + k]
       /\ rule.winner =
            (IF Bust(score1) /\ Bust(score2) THEN "Tie"
             ELSE IF Bust(score1) THEN rule.player2
             ELSE IF Bust(score2) THEN rule.player1
             ELSE IF score1 > score2 THEN rule.player1
             ELSE IF score2 > score1 THEN rule.player2
             ELSE "Tie")
       /\ rule.winner = rule.player1 => ~Bust(score1)
       /\ rule.winner = rule.player2 => ~Bust(score2)

\* player 1 went bust with the higher score after drawing, and player 2,
\* who also drew, is declared the winner
C29_Witness ==
  /\ rule.game = "blackjack"
  /\ rule.played
  /\ Bust(rule.deal.player1Score)
  /\ ~Bust(rule.deal.player2Score)
  /\ Len(rule.deal.player1Cards) > 2
  /\ Len(rule.deal.player2Cards) > 2
  /\ rule.winner = rule.player2

\* C30: for every result stored for a coin-flip session, the entry the
\* CryptoTransparencyPanel builds for it carries the context label and the
\* game index of the flip and reports the value the engine drew for it.
C30_PanelReportsEngineValue ==
  \A i \in 1..Len(appState.sessions) :
    appState.sessions[i].type = "coin-flip" =>
      \A n \in 1..Len(appState.sessions[i].results) :
        LET stored == appState.sessions[i].results[n].val
            entry == seedDerivation(appState.masterSeed, appState.sessions[i], n - 1)
        IN /\ entry.context = CoinFlipContext(appState.sessions[i].id)
           /\ entry.gameIndex = stored.gameIndex
           /\ entry.derivedValue = stored.flipRandom
====
